---- MODULE Spec2Model ----
(***************************************************************************)
(* The query builder (ast/compare.rs) and the SQLite visitor               *)
(* (visitor/sqlite.rs).  SQL text is a sequence of elements: a keyword is  *)
(* one element ("SELECT"), everything else is written character by        *)
(* character, so that placeholders, quote characters and wildcards can be  *)
(* inspected.  An Option<T> is a sequence of length 0 (None) or 1 (Some).  *)
(***************************************************************************)
EXTENDS Integers, Sequences, FiniteSets, TLC

\* ------------------------------------------------------------- bounds ---

\* largest number of builder calls (comparisons, columns, limit, offset,
\* not) that make up one query
MaxSize == 3

\* largest number of expressions the caller holds before combining them
MaxStack == 2

\* ------------------------------------------------------------- inputs ---

\* the backtick character: a TLA+ string literal cannot hold it, so the
\* character is written by name
Backtick == "BACKTICK"

None == <<>>

Some(x) == <<x>>

\* the literals of the caller: a &str and an integer
StrLit(s) == [str |-> s]

IntLit(i) == [int |-> i]

\* identifiers the caller may use (table, database and column names)
Names == { <<"w">>, <<"a", Backtick, "?">> }

\* pattern strings given to like / begins_with / ends_into
Patterns == { StrLit(<<"m">>), StrLit(<<"%", "m", "_">>) }

\* ParameterizedValue, visitor/sqlite.rs:35-47
Text(s) == [pv |-> "Text", text |-> s]

Integer(i) == [pv |-> "Integer", int |-> i]

\* literal values the caller may compare against
Values == { StrLit(<<"m", "?">>), IntLit(7) }

\* LIMIT / OFFSET arguments
Limits == { 2 }

Offsets == { 30 }

\* ------------------------------------------------------------ helpers ---

RECURSIVE Concat(_)
\* concatenation of a sequence of texts
Concat(ss) == IF ss = <<>> THEN <<>> ELSE Head(ss) \o Concat(Tail(ss))

RECURSIVE Join(_, _)
\* Vec<String>::join(sep)
Join(ss, sep) ==
    IF ss = <<>> THEN <<>>
    ELSE IF Len(ss) = 1 THEN Head(ss)
    ELSE Head(ss) \o sep \o Join(Tail(ss), sep)

Digit(d) == CASE d = 0 -> "0" [] d = 1 -> "1" [] d = 2 -> "2" [] d = 3 -> "3"
              [] d = 4 -> "4" [] d = 5 -> "5" [] d = 6 -> "6" [] d = 7 -> "7"
              [] d = 8 -> "8" [] d = 9 -> "9"

RECURSIVE Decimal(_)
\* format!("{}", n) for an unsigned integer
Decimal(n) == IF n < 10 THEN <<Digit(n)>>
              ELSE Decimal(n \div 10) \o <<Digit(n % 10)>>

\* ---------------------------------------------------------------- AST ---

\* Column::from(&str), Column::from((table, column)),
\* Column::from((database, table, column))
Column1(name) == [name |-> name, table |-> None, database |-> None]

Column2(table, name) == [name |-> name, table |-> Some(table), database |-> None]

Column3(db, table, name) == [name |-> name, table |-> Some(table), database |-> Some(db)]

\* DatabaseValue
DbColumn(c) == [dv |-> "Column", column |-> c]

DbParameterized(v) == [dv |-> "Parameterized", value |-> v]

\* From<&str> and From<i64> for DatabaseValue: a present value of the
\* corresponding variant
IntoDatabaseValue(literal) ==
    IF "str" \in DOMAIN literal
    THEN DbParameterized(Text(literal.str))
    ELSE DbParameterized(Integer(literal.int))

\* Into<String> for &str
IntoString(literal) == literal.str

\* Table::from(&str), Table::from((database, table))
Table1(name) == [name |-> name, database |-> None]

Table2(db, name) == [name |-> name, database |-> Some(db)]

\* Expression
ExprCompare(c) == [expr |-> "Compare", compare |-> c]

ExprTree(t) == [expr |-> "ConditionTree", tree |-> t]

\* ConditionTree
TreeAnd(l, r) == [tree |-> "And", left |-> l, right |-> r]

TreeOr(l, r) == [tree |-> "Or", left |-> l, right |-> r]

TreeNot(e) == [tree |-> "Not", inner |-> e]

TreeSingle(e) == [tree |-> "Single", inner |-> e]

NoCondition == [tree |-> "NoCondition"]

\* a builder value is a Compare (has field cmp) or a ConditionTree
IsCompare(x) == "cmp" \in DOMAIN x

\* Into<Expression> for Compare (compare.rs:51-55) and for ConditionTree
IntoExpression(x) == IF IsCompare(x) THEN ExprCompare(x) ELSE ExprTree(x)

\* Into<ConditionTree> for Compare (compare.rs:44-49); identity on a tree
IntoConditionTree(x) == IF IsCompare(x) THEN TreeSingle(ExprCompare(x)) ELSE x

\* ------------------------------------------------- Compare, Comparable ---

\* enum Compare, compare.rs:5-42
Compare2(op, l, r) == [cmp |-> op, left |-> l, right |-> r]

ComparePattern(op, l, p) == [cmp |-> op, left |-> l, pattern |-> p]

Compare1(op, v) == [cmp |-> op, left |-> v]

Compare3(op, v, lo, hi) == [cmp |-> op, left |-> v, lo |-> lo, hi |-> hi]

\* impl Comparable for DatabaseValue: every method wraps its receiver and
\* its converted arguments in the Compare variant of the same name
DatabaseValue_compare(val, method, args) ==
    CASE method = "equals" -> Compare2("Equals", val, IntoDatabaseValue(args[1]))
      [] method = "not_equals" -> Compare2("NotEquals", val, IntoDatabaseValue(args[1]))
      [] method = "less_than" -> Compare2("LessThan", val, IntoDatabaseValue(args[1]))
      [] method = "less_than_or_equals" ->
            Compare2("LessThanOrEquals", val, IntoDatabaseValue(args[1]))
      [] method = "greater_than" -> Compare2("GreaterThan", val, IntoDatabaseValue(args[1]))
      [] method = "greater_than_or_equals" ->
            Compare2("GreaterThanOrEquals", val, IntoDatabaseValue(args[1]))
      [] method = "in_selection" -> Compare2("In", val, IntoDatabaseValue(args[1]))
      [] method = "not_in_selection" -> Compare2("NotIn", val, IntoDatabaseValue(args[1]))
      [] method = "like" -> ComparePattern("Like", val, IntoString(args[1]))
      [] method = "not_like" -> ComparePattern("NotLike", val, IntoString(args[1]))
      [] method = "begins_with" -> ComparePattern("BeginsWith", val, IntoString(args[1]))
      [] method = "not_begins_with" -> ComparePattern("NotBeginsWith", val, IntoString(args[1]))
      [] method = "ends_into" -> ComparePattern("EndsInto", val, IntoString(args[1]))
      [] method = "not_ends_into" -> ComparePattern("NotEndsInto", val, IntoString(args[1]))
      [] method = "is_null" -> Compare1("Null", val)
      [] method = "is_not_null" -> Compare1("NotNull", val)
      [] method = "between" ->
            Compare3("Between", val, IntoDatabaseValue(args[1]), IntoDatabaseValue(args[2]))
      [] method = "not_between" ->
            Compare3("NotBetween", val, IntoDatabaseValue(args[1]), IntoDatabaseValue(args[2]))

\* Column::from(receiver): a receiver is <<column>>, <<table, column>> or
\* <<database, table, column>>
\* a 2-tuple read as (column, table)
ColumnFrom_swapped(kind) ==
    CASE Len(kind) = 1 -> Column1(kind[1])
      [] Len(kind) = 2 -> Column2(kind[2], kind[1])
      [] Len(kind) = 3 -> Column3(kind[1], kind[2], kind[3])

ColumnFrom(kind) ==
    CASE Len(kind) = 1 -> Column1(kind[1])
      [] Len(kind) = 2 -> Column2(kind[1], kind[2])
      [] Len(kind) = 3 -> Column3(kind[1], kind[2], kind[3])

\* comparable!, compare.rs:348-513: each method turns the receiver into a
\* Column, the Column into a DatabaseValue and calls the same method on it
equals(kind, comparison) ==
    LET col == ColumnFrom(kind)
        val == DbColumn(col)
    IN  DatabaseValue_compare(val, "equals", <<comparison>>)

not_equals(kind, comparison) ==
    LET col == ColumnFrom(kind)
        val == DbColumn(col)
    IN  DatabaseValue_compare(val, "not_equals", <<comparison>>)

less_than(kind, comparison) ==
    LET col == ColumnFrom(kind)
        val == DbColumn(col)
    IN  DatabaseValue_compare(val, "less_than", <<comparison>>)

less_than_or_equals(kind, comparison) ==
    LET col == ColumnFrom(kind)
        val == DbColumn(col)
    IN  DatabaseValue_compare(val, "less_than_or_equals", <<comparison>>)

greater_than(kind, comparison) ==
    LET col == ColumnFrom(kind)
        val == DbColumn(col)
    IN  DatabaseValue_compare(val, "greater_than", <<comparison>>)

greater_than_or_equals(kind, comparison) ==
    LET col == ColumnFrom(kind)
        val == DbColumn(col)
    IN  DatabaseValue_compare(val, "greater_than_or_equals", <<comparison>>)

in_selection(kind, selection) ==
    LET col == ColumnFrom(kind)
        val == DbColumn(col)
    IN  DatabaseValue_compare(val, "in_selection", <<selection>>)

not_in_selection(kind, selection) ==
    LET col == ColumnFrom(kind)
        val == DbColumn(col)
    IN  DatabaseValue_compare(val, "not_in_selection", <<selection>>)

like(kind, pattern) ==
    LET col == ColumnFrom(kind)
        val == DbColumn(col)
    IN  DatabaseValue_compare(val, "like", <<pattern>>)

\* not_like that forwards to like
not_like_as_like(kind, pattern) == like(kind, pattern)

not_like(kind, pattern) ==
    LET col == ColumnFrom(kind)
        val == DbColumn(col)
    IN  DatabaseValue_compare(val, "not_like", <<pattern>>)

begins_with(kind, pattern) ==
    LET col == ColumnFrom(kind)
        val == DbColumn(col)
    IN  DatabaseValue_compare(val, "begins_with", <<pattern>>)

not_begins_with(kind, pattern) ==
    LET col == ColumnFrom(kind)
        val == DbColumn(col)
    IN  DatabaseValue_compare(val, "not_begins_with", <<pattern>>)

ends_into(kind, pattern) ==
    LET col == ColumnFrom(kind)
        val == DbColumn(col)
    IN  DatabaseValue_compare(val, "ends_into", <<pattern>>)

not_ends_into(kind, pattern) ==
    LET col == ColumnFrom(kind)
        val == DbColumn(col)
    IN  DatabaseValue_compare(val, "not_ends_into", <<pattern>>)

\* is_null that compares with a bound value
is_null_as_equals(kind) ==
    LET col == ColumnFrom(kind)
        val == DbColumn(col)
    IN  DatabaseValue_compare(val, "equals", <<IntLit(0)>>)

is_null(kind) ==
    LET col == ColumnFrom(kind)
        val == DbColumn(col)
    IN  DatabaseValue_compare(val, "is_null", <<>>)

is_not_null(kind) ==
    LET col == ColumnFrom(kind)
        val == DbColumn(col)
    IN  DatabaseValue_compare(val, "is_not_null", <<>>)

between(kind, left, right) ==
    LET col == ColumnFrom(kind)
        val == DbColumn(col)
    IN  DatabaseValue_compare(val, "between", <<left, right>>)

not_between(kind, left, right) ==
    LET col == ColumnFrom(kind)
        val == DbColumn(col)
    IN  DatabaseValue_compare(val, "not_between", <<left, right>>)

\* the method of the Comparable trait named by a call
Comparable(method, kind, args) ==
    CASE method = "equals" -> equals(kind, args[1])
      [] method = "not_equals" -> not_equals(kind, args[1])
      [] method = "less_than" -> less_than(kind, args[1])
      [] method = "less_than_or_equals" -> less_than_or_equals(kind, args[1])
      [] method = "greater_than" -> greater_than(kind, args[1])
      [] method = "greater_than_or_equals" -> greater_than_or_equals(kind, args[1])
      [] method = "in_selection" -> in_selection(kind, args[1])
      [] method = "not_in_selection" -> not_in_selection(kind, args[1])
      [] method = "like" -> like(kind, args[1])
      [] method = "not_like" -> not_like(kind, args[1])
      [] method = "begins_with" -> begins_with(kind, args[1])
      [] method = "not_begins_with" -> not_begins_with(kind, args[1])
      [] method = "ends_into" -> ends_into(kind, args[1])
      [] method = "not_ends_into" -> not_ends_into(kind, args[1])
      [] method = "is_null" -> is_null(kind)
      [] method = "is_not_null" -> is_not_null(kind)
      [] method = "between" -> between(kind, args[1], args[2])
      [] method = "not_between" -> not_between(kind, args[1], args[2])

\* --------------------------------------------------------- Conjuctive ---

\* and with its two operands exchanged
Conjuctive_and_swapped(self, other) ==
    [tree |-> "And", left |-> IntoExpression(other), right |-> IntoExpression(self)]

\* and that regroups a.and(b.and(c)) to the left
Conjuctive_and_regrouped(self, other) ==
    IF ~IsCompare(other) /\ other.tree = "And"
    THEN [tree |-> "And",
          left |-> ExprTree([tree |-> "And", left |-> IntoExpression(self),
                             right |-> other.left]),
          right |-> other.right]
    ELSE [tree |-> "And", left |-> IntoExpression(self),
          right |-> IntoExpression(other)]

\* or that builds a conjunction
Conjuctive_or_as_and(self, other) ==
    [tree |-> "And", left |-> IntoExpression(self), right |-> IntoExpression(other)]

\* impl Conjuctive for Compare, compare.rs:57-81 (and the same three
\* methods on a ConditionTree receiver)
Conjuctive_and(self, other) ==
    LET left == IntoExpression(self)
        right == IntoExpression(other)
    IN  TreeAnd(left, right)

Conjuctive_or(self, other) ==
    LET left == IntoExpression(self)
        right == IntoExpression(other)
    IN  TreeOr(left, right)

Conjuctive_not(self) == TreeNot(IntoExpression(self))

\* ------------------------------------------------------------ visitor ---

\* the SQL keywords and operators; a keyword is one element of the text
KW_SELECT == <<"SELECT">>

KW_FROM == <<"FROM">>

KW_WHERE == <<"WHERE">>

KW_LIMIT == <<"LIMIT">>

KW_OFFSET == <<"OFFSET">>

KW_AND == <<"AND">>

KW_OR == <<"OR">>

KW_NOT == <<"NOT">>

KW_LIKE == <<"LIKE">>

KW_IS == <<"IS">>

KW_NULL == <<"NULL">>

KW_BETWEEN == <<"BETWEEN">>

KW_EQ == <<"=">>

KW_NE == <<"<", ">">>

KW_LT == <<"<">>

\* Visitor::C_PARAM for Sqlite, visitor/sqlite.rs:13
C_PARAM == <<"?">>

\* the double quote of another dialect
C_QUOTE_double == "\""

\* Visitor::C_QUOTE for Sqlite, visitor/sqlite.rs:14
C_QUOTE == Backtick

\* add_parameter that drops the value
add_parameter_drop(parameters, value) == parameters

\* Sqlite::add_parameter, visitor/sqlite.rs:16-18: push on self.parameters
add_parameter(parameters, value) == Append(parameters, value)

\* what a visit method returns: the text it emitted and self.parameters
\* as the visit left them
Emit(out, parameters) == [out |-> out, parameters |-> parameters]

RECURSIVE EscapeQuote(_)
\* an identifier with every embedded quote character doubled
EscapeQuote(part) ==
    IF part = <<>> THEN <<>>
    ELSE IF Head(part) = C_QUOTE
         THEN <<C_QUOTE, C_QUOTE>> \o EscapeQuote(Tail(part))
         ELSE <<Head(part)>> \o EscapeQuote(Tail(part))

\* one identifier wrapped in C_QUOTE
QuoteIdentifier(part) == <<C_QUOTE>> \o EscapeQuote(part) \o <<C_QUOTE>>

\* a qualified identifier: every part quoted, the parts joined by "."
delimited_identifiers(parts) ==
    Join([i \in 1..Len(parts) |-> QuoteIdentifier(parts[i])], <<".">>)

visit_table(table) == delimited_identifiers(table.database \o <<table.name>>)

visit_column(column) ==
    delimited_identifiers(column.database \o column.table \o <<column.name>>)

\* a bound value becomes a placeholder, a column is rendered inline
visit_database_value(parameters, value) ==
    IF value.dv = "Parameterized"
    THEN Emit(C_PARAM, add_parameter(parameters, value.value))
    ELSE Emit(visit_column(value.column), parameters)

\* the SQL operator of a two-sided Compare variant
CompareOperator(cmp) ==
    CASE cmp = "Equals" -> KW_EQ
      [] cmp = "NotEquals" -> KW_NE
      [] cmp = "LessThan" -> KW_LT

\* the bound value of a pattern comparison
PatternValue(cmp, pattern) ==
    CASE cmp \in {"Like", "NotLike"} -> Text(<<"%">> \o pattern \o <<"%">>)
      [] cmp \in {"BeginsWith", "NotBeginsWith"} -> Text(pattern \o <<"%">>)
      [] cmp \in {"EndsInto", "NotEndsInto"} -> Text(<<"%">> \o pattern)

visit_compare(parameters, compare) ==
    LET left == visit_database_value(parameters, compare.left)
    IN  CASE compare.cmp \in {"Equals", "NotEquals", "LessThan"} ->
               LET right == visit_database_value(left.parameters, compare.right)
               IN  Emit(left.out \o <<" ">> \o CompareOperator(compare.cmp)
                            \o <<" ">> \o right.out,
                        right.parameters)
          [] compare.cmp \in {"Like", "BeginsWith", "EndsInto"} ->
               Emit(left.out \o <<" ">> \o KW_LIKE \o <<" ">> \o C_PARAM,
                    add_parameter(left.parameters,
                                  PatternValue(compare.cmp, compare.pattern)))
          [] compare.cmp \in {"NotLike", "NotBeginsWith", "NotEndsInto"} ->
               Emit(left.out \o <<" ">> \o KW_NOT \o <<" ">> \o KW_LIKE
                            \o <<" ">> \o C_PARAM,
                    add_parameter(left.parameters,
                                  PatternValue(compare.cmp, compare.pattern)))
          [] compare.cmp = "Null" ->
               Emit(left.out \o <<" ">> \o KW_IS \o <<" ">> \o KW_NULL,
                    left.parameters)
          [] compare.cmp = "NotNull" ->
               Emit(left.out \o <<" ">> \o KW_IS \o <<" ">> \o KW_NOT
                            \o <<" ">> \o KW_NULL,
                    left.parameters)
          [] compare.cmp \in {"Between", "NotBetween"} ->
               LET lo == visit_database_value(left.parameters, compare.lo)
                   hi == visit_database_value(lo.parameters, compare.hi)
                   neg == IF compare.cmp = "NotBetween"
                          THEN KW_NOT \o <<" ">> ELSE <<>>
               IN  Emit(left.out \o <<" ">> \o neg \o KW_BETWEEN \o <<" ">>
                            \o lo.out \o <<" ">> \o KW_AND \o <<" ">> \o hi.out,
                        hi.parameters)

RECURSIVE visit_conditions(_, _)
RECURSIVE visit_expression(_, _)
visit_expression(parameters, expression) ==
    IF expression.expr = "Compare"
    THEN visit_compare(parameters, expression.compare)
    ELSE visit_conditions(parameters, expression.tree)

visit_conditions(parameters, tree) ==
    CASE tree.tree = "And" ->
            LET left == visit_expression(parameters, tree.left)
                right == visit_expression(left.parameters, tree.right)
            IN  Emit(<<"(">> \o left.out \o <<" ">> \o KW_AND \o <<" ">>
                         \o right.out \o <<")">>,
                     right.parameters)
      [] tree.tree = "Or" ->
            LET left == visit_expression(parameters, tree.left)
                right == visit_expression(left.parameters, tree.right)
            IN  Emit(<<"(">> \o left.out \o <<" ">> \o KW_OR \o <<" ">>
                         \o right.out \o <<")">>,
                     right.parameters)
      [] tree.tree = "Not" ->
            LET inner == visit_expression(parameters, tree.inner)
            IN  Emit(<<"(">> \o KW_NOT \o <<" ">> \o inner.out \o <<")">>,
                     inner.parameters)
      [] tree.tree = "Single" -> visit_expression(parameters, tree.inner)
      [] tree.tree = "NoCondition" -> Emit(<<>>, parameters)

RECURSIVE visit_columns(_, _)
\* the select list: every item visited in order, joined by ", "
visit_columns(parameters, columns) ==
    IF columns = <<>> THEN Emit(<<>>, parameters)
    ELSE LET first == visit_database_value(parameters, Head(columns))
             rest == visit_columns(first.parameters, Tail(columns))
         IN  Emit(IF Tail(columns) = <<>> THEN first.out
                  ELSE first.out \o <<",", " ">> \o rest.out,
                  rest.parameters)

\* LIMIT -1 only for an OFFSET given without a LIMIT
visit_limit_and_offset_offset_only(select) ==
    (IF select.limit # None
     THEN << <<"LIMIT">> \o <<" ">> \o Decimal(select.limit[1]) >>
     ELSE IF select.offset # None THEN << <<"LIMIT">> \o <<" ", "-", "1">> >> ELSE <<>>)
      \o (IF select.offset # None
          THEN << <<"OFFSET">> \o <<" ">> \o Decimal(select.offset[1]) >>
          ELSE <<>>)

\* LIMIT / OFFSET of the SQLite visitor: LIMIT -1 stands for "no limit"
visit_limit_and_offset(select) ==
    LET limit == IF select.limit # None
                 THEN << KW_LIMIT \o <<" ">> \o Decimal(select.limit[1]) >>
                 ELSE IF select.table # None \/ select.offset # None
                      THEN << KW_LIMIT \o <<" ", "-", "1">> >>
                      ELSE <<>>
        offset == IF select.offset # None
                  THEN << KW_OFFSET \o <<" ">> \o Decimal(select.offset[1]) >>
                  ELSE <<>>
    IN  limit \o offset

\* a WHERE for every condition that is set, NoCondition included
HasConditions_any(select) == select.conditions # None

\* whether the select has a condition to render: NoCondition is omitted
\* together with its WHERE
HasConditions(select) ==
    select.conditions # None /\ select.conditions[1].tree # "NoCondition"

\* SELECT <columns> [FROM <table>] [WHERE <conditions>] [LIMIT] [OFFSET],
\* the clauses joined by one space
visit_select(parameters, select) ==
    LET columns == IF select.columns = <<>>
                   THEN Emit(<<"*">>, parameters)
                   ELSE visit_columns(parameters, select.columns)
        from == IF select.table = None THEN <<>>
                ELSE << KW_FROM \o <<" ">> \o visit_table(select.table[1]) >>
        hasWhere == HasConditions(select)
        conditions == IF hasWhere
                      THEN visit_conditions(columns.parameters, select.conditions[1])
                      ELSE Emit(<<>>, columns.parameters)
        where == IF hasWhere THEN << KW_WHERE \o <<" ">> \o conditions.out >>
                 ELSE <<>>
    IN  Emit(Join(<<KW_SELECT, columns.out>> \o from \o where
                      \o visit_limit_and_offset(select),
                  <<" ">>),
             conditions.parameters)

\* Query::Select is the only Query variant built here
visit_query(parameters, query) == visit_select(parameters, query)

\* Sqlite::build, visitor/sqlite.rs:20-32: a fresh visitor with no
\* parameters visits the query; the result is (text, self.parameters)
build(query) ==
    LET sqlite == [parameters |-> <<>>]
        visited == visit_query(sqlite.parameters, query)
    IN  <<visited.out, visited.parameters>>

\* ------------------------------------------------------------- Select ---

\* Select::from(table) and Select::default(): nothing but the table is set
Select_from(table) ==
    [table |-> Some(table), columns |-> <<>>, conditions |-> None,
     limit |-> None, offset |-> None]

Select_default ==
    [table |-> None, columns |-> <<>>, conditions |-> None,
     limit |-> None, offset |-> None]

\* Select::column, Select::value: one more item of the select list
Select_column(select, name) ==
    [select EXCEPT !.columns = Append(@, DbColumn(Column1(name)))]

Select_value(select, value) ==
    [select EXCEPT !.columns = Append(@, DbParameterized(value))]

\* Select::so_that(conditions), conditions: Into<ConditionTree>
Select_so_that(select, conditions) ==
    [select EXCEPT !.conditions = Some(IntoConditionTree(conditions))]

Select_limit(select, limit) == [select EXCEPT !.limit = Some(limit)]

Select_offset(select, offset) == [select EXCEPT !.offset = Some(offset)]

\* ------------------------------------------------------ the caller's code ---

\* tables the caller may select from
Tables == { Table1(<<"a", Backtick, "?">>), Table2(<<"c">>, <<"u", Backtick>>) }

ValueMethods == {"equals", "not_equals", "less_than"}

PatternMethods == {"like", "not_like", "begins_with", "not_begins_with",
                   "ends_into", "not_ends_into"}

NullMethods == {"is_null", "is_not_null"}

BetweenMethods == {"between", "not_between"}

\* a call receiver.method(args) of the Comparable trait; the receiver is
\* <<column>> (a &str), <<table, column>> or <<database, table, column>>
Call(method, kind, args) == [call |-> method, kind |-> kind, args |-> args]

\* the short comparisons long conditions are made of
CoreCalls ==
    { Call("equals", <<<<"w">>>>, <<StrLit(<<"m", "?">>)>>),
      Call("equals", <<<<"a", Backtick, "?">>>>, <<IntLit(7)>>),
      Call("less_than", <<<<"w">>>>, <<IntLit(7)>>) }

\* every comparison the caller may write
ComparableCalls ==
    CoreCalls
      \cup { Call(m, <<n>>, <<v>>) : m \in ValueMethods, n \in Names, v \in Values }
      \cup { Call(m, <<<<"w">>>>, <<p>>) : m \in PatternMethods, p \in Patterns }
      \cup { Call(m, <<<<"w">>>>, <<>>) : m \in NullMethods }
      \cup { Call(m, <<<<"w">>>>, args) :
                m \in BetweenMethods,
                args \in { <<StrLit(<<"m", "?">>), IntLit(7)>>,
                           <<IntLit(7), StrLit(<<"m", "?">>)>> } }
      \cup { Call("equals", <<<<"t">>, <<"w">>>>, <<IntLit(7)>>),
             Call("like", <<<<"t">>, <<"w">>>>, <<StrLit(<<"m">>)>>),
             Call("is_null", <<<<"d">>, <<"t">>, <<"w">>>>, <<>>),
             Call("not_ends_into", <<<<"d">>, <<"t">>, <<"a", Backtick, "?">>>>,
                  <<StrLit(<<"%", "m", "_">>)>>) }

IsComparableCall(c) == "kind" \in DOMAIN c

RECURSIVE CallSize(_)
\* the size of an expression of the caller: a short comparison counts 1,
\* any other comparison 3, a negation 1
CallSize(c) ==
    IF IsComparableCall(c) THEN (IF c \in CoreCalls THEN 1 ELSE 3)
    ELSE IF c.call = "not" THEN 1 + CallSize(c.recv)
    ELSE CallSize(c.recv) + CallSize(c.arg)

RECURSIVE SumSizes(_)
SumSizes(cs) == IF cs = <<>> THEN 0 ELSE CallSize(Head(cs)) + SumSizes(Tail(cs))

VARIABLES
    select,      \* Option<Select>: the query under construction
    stack,       \* the Compare / ConditionTree values the caller holds
    calls,       \* for each value of stack, the expression that built it
    where,       \* Option: the expression given to so_that
    sql,         \* the text returned by build
    parameters,  \* the parameter list returned by build
    pc,          \* "building" until build has returned, then "built"
    connector,   \* Option: the connector value (its kind and its fields)
    tasks,       \* for each task using the connector, the call it is in
    holders,     \* the tasks that hold a guard of connector.connection
    url,         \* the connection URL given to PostgresUrl::new: its path and query pairs
    postgres_url, \* Option: what PostgresUrl::new returned
    conv_value,  \* the Value a caller gives to bind_value
    conv_type,   \* Option: the name of the type of the parameter or of the column
    conv_bound,  \* Option: what bind_value returned, and for which database
    conv_row,    \* Option: what map_row returned for the stored value
    insert       \* Option<Insert>: the insert built for the PostgreSQL visitor

\* the query builder and visitor
builderVars == <<select, stack, calls, where, sql, parameters, pc>>

\* the connectors
connectorVars == <<connector, tasks, holders>>

\* the connection URL
urlVars == <<url, postgres_url>>

\* the conversions between Value and the values of the drivers
conversionVars == <<conv_value, conv_type, conv_bound, conv_row>>

\* what the query builder never touches
otherVars == <<connectorVars, urlVars, conversionVars, insert>>

vars == <<builderVars, otherVars>>

\* no connector has been created, no URL parsed, no value converted and no
\* insert built
OthersUnused ==
    /\ connector = None
    /\ tasks = <<>>
    /\ holders = {}
    /\ url = <<>>
    /\ postgres_url = None
    /\ conv_value = None
    /\ conv_type = None
    /\ conv_bound = None
    /\ conv_row = None
    /\ insert = None

\* the size of the whole query written so far
QuerySize ==
    SumSizes(calls) + SumSizes(where)
      + (IF select = None THEN 0
         ELSE Len(select[1].columns) + Len(select[1].limit) + Len(select[1].offset))

Init ==
    /\ select = None
    /\ stack = <<>>
    /\ calls = <<>>
    /\ where = None
    /\ sql = <<>>
    /\ parameters = <<>>
    /\ pc = "building"
    /\ OthersUnused

\* let query = Select::from(table) / Select::from((database, table))
SelectFrom ==
    /\ pc = "building"
    /\ select = None
    /\ \E t \in Tables : select' = Some(Select_from(t))
    /\ UNCHANGED <<otherVars, stack, calls, where, sql, parameters, pc>>

\* let query = Select::default()
SelectDefault ==
    /\ pc = "building"
    /\ select = None
    /\ select' = Some(Select_default)
    /\ UNCHANGED <<otherVars, stack, calls, where, sql, parameters, pc>>

\* query.column(name)
AddColumn ==
    /\ pc = "building"
    /\ select # None
    /\ QuerySize < MaxSize
    /\ \E n \in Names : select' = Some(Select_column(select[1], n))
    /\ UNCHANGED <<otherVars, stack, calls, where, sql, parameters, pc>>

\* query.value(v)
AddValue ==
    /\ pc = "building"
    /\ select # None
    /\ QuerySize < MaxSize
    /\ \E v \in Values :
         select' = Some(Select_value(select[1], IntoDatabaseValue(v).value))
    /\ UNCHANGED <<otherVars, stack, calls, where, sql, parameters, pc>>

\* query.limit(n)
SetLimit ==
    /\ pc = "building"
    /\ select # None
    /\ select[1].limit = None
    /\ QuerySize < MaxSize
    /\ \E n \in Limits : select' = Some(Select_limit(select[1], n))
    /\ UNCHANGED <<otherVars, stack, calls, where, sql, parameters, pc>>

\* query.offset(n)
SetOffset ==
    /\ pc = "building"
    /\ select # None
    /\ select[1].offset = None
    /\ QuerySize < MaxSize
    /\ \E n \in Offsets : select' = Some(Select_offset(select[1], n))
    /\ UNCHANGED <<otherVars, stack, calls, where, sql, parameters, pc>>

\* receiver.method(args) of the Comparable trait; the caller keeps the Compare
CompareCall ==
    /\ pc = "building"
    /\ select # None
    /\ where = None
    /\ Len(stack) < MaxStack
    /\ \E c \in ComparableCalls :
         /\ QuerySize + CallSize(c) <= MaxSize
         /\ stack' = Append(stack, Comparable(c.call, c.kind, c.args))
         /\ calls' = Append(calls, c)
    /\ UNCHANGED <<otherVars, select, where, sql, parameters, pc>>

\* x.and(y) for two values the caller holds, in either order
AndCall ==
    /\ pc = "building"
    /\ Len(stack) >= 2
    /\ \E i, j \in {Len(stack) - 1, Len(stack)} :
         /\ i # j
         /\ stack' = Append(SubSeq(stack, 1, Len(stack) - 2),
                            Conjuctive_and(stack[i], stack[j]))
         /\ calls' = Append(SubSeq(calls, 1, Len(calls) - 2),
                            [call |-> "and", recv |-> calls[i], arg |-> calls[j]])
    /\ UNCHANGED <<otherVars, select, where, sql, parameters, pc>>

\* x.or(y) for two values the caller holds, in either order
OrCall ==
    /\ pc = "building"
    /\ Len(stack) >= 2
    /\ \E i, j \in {Len(stack) - 1, Len(stack)} :
         /\ i # j
         /\ stack' = Append(SubSeq(stack, 1, Len(stack) - 2),
                            Conjuctive_or(stack[i], stack[j]))
         /\ calls' = Append(SubSeq(calls, 1, Len(calls) - 2),
                            [call |-> "or", recv |-> calls[i], arg |-> calls[j]])
    /\ UNCHANGED <<otherVars, select, where, sql, parameters, pc>>

\* x.not() for the value the caller built last
NotCall ==
    /\ pc = "building"
    /\ Len(stack) >= 1
    /\ QuerySize < MaxSize
    /\ stack' = [stack EXCEPT ![Len(stack)] = Conjuctive_not(@)]
    /\ calls' = [calls EXCEPT ![Len(calls)] = [call |-> "not", recv |-> @]]
    /\ UNCHANGED <<otherVars, select, where, sql, parameters, pc>>

\* query.so_that(x) with the one value the caller holds
SoThat ==
    /\ pc = "building"
    /\ select # None
    /\ where = None
    /\ Len(stack) = 1
    /\ select' = Some(Select_so_that(select[1], stack[1]))
    /\ where' = Some(calls[1])
    /\ stack' = <<>>
    /\ calls' = <<>>
    /\ UNCHANGED <<otherVars, sql, parameters, pc>>

\* query.so_that(ConditionTree::NoCondition)
SoThatNoCondition ==
    /\ pc = "building"
    /\ select # None
    /\ where = None
    /\ stack = <<>>
    /\ select[1].conditions = None
    /\ select' = Some(Select_so_that(select[1], NoCondition))
    /\ UNCHANGED <<otherVars, stack, calls, where, sql, parameters, pc>>

\* let (sql, params) = Sqlite::build(query)
Build ==
    /\ pc = "building"
    /\ select # None
    /\ stack = <<>>
    /\ LET result == build(select[1])
       IN  /\ sql' = result[1]
           /\ parameters' = result[2]
    /\ pc' = "built"
    /\ UNCHANGED <<otherVars, select, stack, calls, where>>

Next ==
    \/ SelectFrom
    \/ SelectDefault
    \/ AddColumn
    \/ AddValue
    \/ SetLimit
    \/ SetOffset
    \/ CompareCall
    \/ AndCall
    \/ OrCall
    \/ NotCall
    \/ SoThat
    \/ SoThatNoCondition
    \/ Build

Spec == Init /\ [][Next]_vars

\* ------------------------------------- every method on every receiver ---

\* the methods of the Comparable trait that take one value
AllValueMethods ==
    ValueMethods \cup {"less_than_or_equals", "greater_than", "greater_than_or_equals",
                       "in_selection", "not_in_selection"}

\* receivers: a column, (table, column), (database, table, column)
Receivers ==
    { <<n>> : n \in Names } \cup { <<<<"t">>, n>> : n \in Names }
      \cup { <<<<"d">>, <<"t">>, n>> : n \in Names }

\* every call receiver.method(args) of the Comparable trait
AllComparableCalls ==
    { Call(m, r, <<v>>) : m \in AllValueMethods, r \in Receivers, v \in Values }
      \cup { Call(m, r, <<p>>) : m \in PatternMethods, r \in Receivers, p \in Patterns }
      \cup { Call(m, r, <<>>) : m \in NullMethods, r \in Receivers }
      \cup { Call(m, r, args) :
                m \in BetweenMethods, r \in Receivers,
                args \in { <<StrLit(<<"m", "?">>), IntLit(7)>>,
                           <<IntLit(7), StrLit(<<"m", "?">>)>> } }

\* the caller is about to write one call
InitComparable ==
    /\ select = None
    /\ stack = <<>>
    /\ calls \in { <<c>> : c \in AllComparableCalls }
    /\ where = None
    /\ sql = <<>>
    /\ parameters = <<>>
    /\ pc = "building"
    /\ OthersUnused

\* receiver.method(args)
ApplyComparable ==
    /\ pc = "building"
    /\ stack = <<>>
    /\ Len(calls) = 1
    /\ stack' = <<Comparable(calls[1].call, calls[1].kind, calls[1].args)>>
    /\ UNCHANGED <<otherVars, select, calls, where, sql, parameters, pc>>

SpecComparable == InitComparable /\ [][ApplyComparable]_vars

\* ----------------------------------------------------------- connectors ---

\* the longest parameter list a caller passes
MaxParams == 2

\* Value::Array, which SQLite cannot bind
Array == [pv |-> "Array"]

\* the parameter lists a caller passes: 1, 2, .. and one holding an array
ParamLists ==
    { [i \in 1..n |-> Integer(i)] : n \in 0..MaxParams } \cup { <<Array>> }

\* what describe.parameters() may be: None (also standing for a count
\* without types), or the types of n parameters
Describes ==
    { [parameters |-> "None"] }
      \cup { [parameters |-> "Left", type_infos |-> n] : n \in 0..MaxParams }

\* the connectors a caller may create
Connectors ==
    { [kind |-> k, socket_timeout |-> d, pg_bouncer |-> b] :
        k \in {"sqlite", "mysql"}, d \in {None, Some(5)}, b \in {FALSE} }
      \cup { [kind |-> "postgres", socket_timeout |-> d, pg_bouncer |-> b] :
                d \in {None, Some(5)}, b \in BOOLEAN }

\* the tasks that share the connector
Tasks == {1, 2}

\* timeout(duration, f) polled once: f is "pending", "ok" or "err", the
\* timer of tokio::time::timeout is "armed" or "elapsed"; f is polled first
timeout_err_as_elapsed(duration, f, timer) ==
    IF duration # None
    THEN CASE f = "ok" -> "Ok"
           [] f = "err" -> "Timeout"
           [] timer = "elapsed" -> "Timeout"
           [] OTHER -> "Pending"
    ELSE CASE f = "ok" -> "Ok"
           [] f = "err" -> "QueryError"
           [] OTHER -> "Pending"

timeout(duration, f, timer) ==
    IF duration # None
    THEN CASE f = "ok" -> "Ok"
           [] f = "err" -> "QueryError"
           [] timer = "elapsed" -> "Timeout"
           [] OTHER -> "Pending"
    ELSE CASE f = "ok" -> "Ok"
           [] f = "err" -> "QueryError"
           [] OTHER -> "Pending"

\* Mysql::timeout(f): the same race against self.socket_timeout
Mysql_timeout(socket_timeout, f, timer) ==
    IF socket_timeout # None
    THEN CASE f = "ok" -> "Ok"
           [] f = "err" -> "QueryError"
           [] timer = "elapsed" -> "Timeout"
           [] OTHER -> "Pending"
    ELSE CASE f = "ok" -> "Ok"
           [] f = "err" -> "QueryError"
           [] OTHER -> "Pending"

\* f.await? with no timeout around it
AwaitDriver(f) ==
    CASE f = "ok" -> "Ok"
      [] f = "err" -> "QueryError"
      [] OTHER -> "Pending"

\* query.bind_value(value, type_info): whether the value converts
bind_value(kind, value) == ~(kind \in {"sqlite", "mysql"} /\ value = Array)

\* the steps of a handler, in order: binding the parameters, locking the
\* connection, and driver calls (under the socket timeout or not)
BindParams == [step |-> "bind"]

BindDescribed == [step |-> "bind_described"]

LockConnection == [step |-> "lock"]

DriverCall(call, stmt, timed) ==
    [step |-> "driver", call |-> call, sql |-> stmt, timed |-> timed, optional |-> FALSE]

\* a driver call made only when the previous reply asks for it
OptionalDriverCall(call, stmt, timed) ==
    [step |-> "driver", call |-> call, sql |-> stmt, timed |-> timed, optional |-> TRUE]

Sqlite_insert(stmt) == <<BindParams, LockConnection, DriverCall("execute", stmt, TRUE)>>

Sqlite_query_raw(stmt) == <<BindParams, LockConnection, DriverCall("fetch", stmt, TRUE)>>

Sqlite_execute_raw(stmt) == <<BindParams, LockConnection, DriverCall("execute", stmt, TRUE)>>

Sqlite_raw_cmd(cmd) == <<LockConnection, DriverCall("execute", cmd, TRUE)>>

Sqlite_attach_database ==
    <<LockConnection,
      DriverCall("fetch_all", "PRAGMA database_list", FALSE),
      OptionalDriverCall("execute", "ATTACH DATABASE ? AS ?", FALSE),
      DriverCall("execute", "PRAGMA foreign_keys = ON", FALSE)>>

Mysql_query_raw(stmt) == <<BindParams, LockConnection, DriverCall("fetch", stmt, TRUE)>>

Mysql_execute_raw(stmt) == <<BindParams, LockConnection, DriverCall("execute", stmt, TRUE)>>

Mysql_raw_cmd(cmd) == <<LockConnection, DriverCall("execute", cmd, TRUE)>>

PostgreSql_query_raw(stmt) ==
    <<LockConnection, DriverCall("describe", stmt, TRUE), BindDescribed,
      DriverCall("fetch", stmt, TRUE)>>

PostgreSql_execute_raw(stmt) ==
    <<BindParams, LockConnection, DriverCall("execute", stmt, FALSE)>>

PostgreSql_raw_cmd(cmd) == <<LockConnection, DriverCall("execute", cmd, TRUE)>>

\* connector.raw_cmd(cmd)
raw_cmd(kind, cmd) ==
    CASE kind = "sqlite" -> Sqlite_raw_cmd(cmd)
      [] kind = "mysql" -> Mysql_raw_cmd(cmd)
      [] kind = "postgres" -> PostgreSql_raw_cmd(cmd)

\* server_reset_query that resets whatever pg_bouncer says
server_reset_query_always(kind, pg_bouncer) ==
    IF kind = "postgres" THEN raw_cmd(kind, "DEALLOCATE ALL") ELSE <<>>

\* PostgreSql::server_reset_query(tx): tx.raw_cmd is the connector's raw_cmd;
\* the other connectors have the trait's default, which does nothing
server_reset_query(kind, pg_bouncer) ==
    IF kind = "postgres" /\ pg_bouncer THEN raw_cmd(kind, "DEALLOCATE ALL") ELSE <<>>

\* start_transaction(): BEGIN through the connector
start_transaction(kind) == raw_cmd(kind, "BEGIN")

\* tx.commit(): COMMIT through the connector
Transaction_commit(kind) == raw_cmd(kind, "COMMIT")

\* the operations a caller may start on a connector
Operations(kind) ==
    {"query_raw", "execute_raw", "raw_cmd", "start_transaction", "commit",
     "server_reset_query"}
      \cup (IF kind = "sqlite" THEN {"insert", "attach_database"} ELSE {})

\* what each task does with the connector: the first uses all of it, the
\* others issue plain statements next to it
CallerOperations(t, kind) ==
    IF t = 1 THEN Operations(kind)
    ELSE Operations(kind) \cap {"query_raw", "execute_raw", "raw_cmd", "insert"}

CallerParams(t) == IF t = 1 THEN ParamLists ELSE { <<Integer(1)>> }

\* the steps of an operation
Handler(c, op) ==
    CASE op = "query_raw" ->
            (CASE c.kind = "sqlite" -> Sqlite_query_raw("SELECT")
               [] c.kind = "mysql" -> Mysql_query_raw("SELECT")
               [] c.kind = "postgres" -> PostgreSql_query_raw("SELECT"))
      [] op = "execute_raw" ->
            (CASE c.kind = "sqlite" -> Sqlite_execute_raw("UPDATE")
               [] c.kind = "mysql" -> Mysql_execute_raw("UPDATE")
               [] c.kind = "postgres" -> PostgreSql_execute_raw("UPDATE"))
      [] op = "raw_cmd" -> raw_cmd(c.kind, "PRAGMA")
      [] op = "insert" -> Sqlite_insert("INSERT")
      [] op = "attach_database" -> Sqlite_attach_database
      [] op = "start_transaction" -> start_transaction(c.kind)
      [] op = "commit" -> Transaction_commit(c.kind)
      [] op = "server_reset_query" -> server_reset_query(c.kind, c.pg_bouncer)

\* a task that is in no call of the connector
IdleTask ==
    [op |-> "idle", phase |-> "idle", prog |-> <<>>, params |-> <<>>, bound |-> <<>>,
     f |-> "none", timer |-> "off", result |-> "none", sent |-> <<>>, tx |-> "none"]

\* futures::lock::Mutex that lets every lock() through
MutexFree_always(guards) == TRUE

\* connection.lock().await returns once no guard of the connection is alive
MutexFree(guards) == guards = {}

\* a guard that stays alive when its future is dropped
Release_leaked(guards, t) == guards

\* the MutexGuard of task t is dropped
Release(guards, t) == guards \ {t}

\* for param in params { query = query.bind_value(param, ..)? }
BindAll(kind, values) == \A i \in 1..Len(values) : bind_value(kind, values[i])

\* values.zip(infos): the parameters that have a type reported for them
Zip(values, describe) ==
    IF describe.parameters = "Left"
    THEN SubSeq(values, 1, IF describe.type_infos < Len(values)
                           THEN describe.type_infos ELSE Len(values))
    ELSE values

\* the call returns: the future is dropped and with it the guard it holds
Returned(task, result) == [task EXCEPT !.phase = "done", !.result = result]

\* the next driver call is sent; under timeout(Some(..), ..) a timer starts
Started(task, rest, socket_timeout) ==
    [task EXCEPT !.prog = rest,
                 !.f = "pending",
                 !.timer = IF Head(rest).timed /\ socket_timeout # None
                           THEN "armed" ELSE "off",
                 !.sent = Append(@, Head(rest).sql)]

\* what a call does between one await and the next, from the steps left:
\* the set of task records it may become
Continue(task, rest, c) ==
    IF rest = <<>> THEN { Returned(task, "Ok") }
    ELSE CASE Head(rest).step = "bind_described" ->
                { IF BindAll(c.kind, Zip(task.params, d))
                  THEN Started([task EXCEPT !.bound = Zip(task.params, d)], Tail(rest),
                               c.socket_timeout)
                  ELSE Returned(task, "ConversionError") : d \in Describes }
           [] Head(rest).step = "driver" ->
                { Started(task, rest, c.socket_timeout) }
                  \cup (IF Head(rest).optional
                        THEN { Started(task, Tail(rest), c.socket_timeout) } ELSE {})

\* the operations a task may start, by the state of its transaction
Allowed(task, op) ==
    CASE task.tx = "none" -> op \notin {"commit", "server_reset_query"}
      [] task.tx = "open" ->
            op \notin {"start_transaction", "server_reset_query", "attach_database"}
      [] task.tx = "committed" -> op = "server_reset_query"

InitConnector ==
    /\ select = None
    /\ stack = <<>>
    /\ calls = <<>>
    /\ where = None
    /\ sql = <<>>
    /\ parameters = <<>>
    /\ pc = "building"
    /\ connector \in { Some(c) : c \in Connectors }
    /\ tasks = [t \in Tasks |-> IdleTask]
    /\ holders = {}
    /\ url = <<>>
    /\ postgres_url = None
    /\ conv_value = None
    /\ conv_type = None
    /\ conv_bound = None
    /\ conv_row = None
    /\ insert = None

\* a task calls an operation: the handler runs up to its first await
CallOp(t) ==
    /\ tasks[t].phase = "idle"
    /\ \A u \in Tasks \ {t} : tasks[u].op # "attach_database"
    /\ \E op \in CallerOperations(t, connector[1].kind), ps \in CallerParams(t) \cup {<<>>} :
         /\ Allowed(tasks[t], op)
         /\ op \notin {"query_raw", "execute_raw", "insert"} => ps = <<>>
         /\ op = "attach_database" => \A u \in Tasks \ {t} : tasks[u].phase = "idle"
         /\ LET prog == Handler(connector[1], op)
                task == [tasks[t] EXCEPT !.op = op, !.phase = "run", !.prog = prog,
                                         !.params = ps]
            IN  tasks' = [tasks EXCEPT ![t] =
                    IF prog = <<>> THEN Returned(task, "Ok")
                    ELSE IF Head(prog).step = "bind"
                    THEN (IF BindAll(connector[1].kind, ps)
                          THEN [task EXCEPT !.bound = ps, !.prog = Tail(prog)]
                          ELSE Returned(task, "ConversionError"))
                    ELSE task]
    /\ UNCHANGED <<builderVars, connector, holders, urlVars, conversionVars, insert>>

\* self.connection.lock().await completes and the handler goes on to its
\* next await
Acquire(t) ==
    /\ tasks[t].phase = "run"
    /\ Head(tasks[t].prog).step = "lock"
    /\ MutexFree(holders)
    /\ \E next \in Continue(tasks[t], Tail(tasks[t].prog), connector[1]) :
         /\ tasks' = [tasks EXCEPT ![t] = next]
         /\ holders' = IF next.phase = "done" THEN holders ELSE holders \cup {t}
    /\ UNCHANGED <<builderVars, connector, urlVars, conversionVars, insert>>

\* the driver call completes
DriverOk(t) ==
    /\ tasks[t].phase = "run"
    /\ tasks[t].f = "pending"
    /\ tasks' = [tasks EXCEPT ![t].f = "ok"]
    /\ UNCHANGED <<builderVars, connector, holders, urlVars, conversionVars, insert>>

\* the driver call fails, or a row fails to decode
DriverErr(t) ==
    /\ tasks[t].phase = "run"
    /\ tasks[t].f = "pending"
    /\ tasks' = [tasks EXCEPT ![t].f = "err"]
    /\ UNCHANGED <<builderVars, connector, holders, urlVars, conversionVars, insert>>

\* the duration of the timeout has passed
TimerElapses(t) ==
    /\ tasks[t].phase = "run"
    /\ tasks[t].timer = "armed"
    /\ tasks' = [tasks EXCEPT ![t].timer = "elapsed"]
    /\ UNCHANGED <<builderVars, connector, holders, urlVars, conversionVars, insert>>

\* the task is polled while it awaits a driver call
Resume(t) ==
    /\ tasks[t].phase = "run"
    /\ Head(tasks[t].prog).step = "driver"
    /\ tasks[t].f # "none"
    /\ LET task == tasks[t]
           c == connector[1]
           outcome ==
               IF ~Head(task.prog).timed THEN AwaitDriver(task.f)
               ELSE IF c.kind = "mysql"
               THEN Mysql_timeout(c.socket_timeout, task.f, task.timer)
               ELSE timeout(c.socket_timeout, task.f, task.timer)
       IN  /\ outcome # "Pending"
           /\ IF outcome = "Ok"
              THEN \E next \in Continue(task, Tail(task.prog), c) :
                      /\ tasks' = [tasks EXCEPT ![t] =
                                     IF next.phase = "done"
                                     THEN [next EXCEPT !.prog = task.prog] ELSE next]
                      /\ holders' = IF next.phase = "done" THEN Release(holders, t) ELSE holders
              ELSE /\ tasks' = [tasks EXCEPT ![t] =
                                  Returned([task EXCEPT !.f = IF outcome = "Timeout"
                                                              THEN "cancelled" ELSE @],
                                           outcome)]
                   /\ holders' = Release(holders, t)
    /\ UNCHANGED <<builderVars, connector, urlVars, conversionVars, insert>>

\* the calling task is cancelled at an await: its future is dropped
Cancel(t) ==
    /\ tasks[t].phase = "run"
    /\ tasks' = [tasks EXCEPT ![t] =
                    Returned([IdleTask EXCEPT !.op = tasks[t].op, !.tx = tasks[t].tx],
                             "Cancelled")]
    /\ holders' = Release(holders, t)
    /\ UNCHANGED <<builderVars, connector, urlVars, conversionVars, insert>>

\* the caller takes the result; a transaction opens on BEGIN, is committed
\* on COMMIT and is over after the reset or on any error
Finish(t) ==
    /\ tasks[t].phase = "done"
    /\ tasks' = [tasks EXCEPT ![t] =
                    [IdleTask EXCEPT !.tx =
                        CASE tasks[t].result # "Ok" -> "none"
                          [] tasks[t].op = "start_transaction" -> "open"
                          [] tasks[t].op = "commit" -> "committed"
                          [] tasks[t].op = "server_reset_query" -> "none"
                          [] OTHER -> tasks[t].tx]]
    /\ UNCHANGED <<builderVars, connector, holders, urlVars, conversionVars, insert>>

NextConnector ==
    \E t \in Tasks :
        \/ CallOp(t)
        \/ Acquire(t)
        \/ DriverOk(t)
        \/ DriverErr(t)
        \/ TimerElapses(t)
        \/ Resume(t)
        \/ Cancel(t)
        \/ Finish(t)

SpecConnector == InitConnector /\ [][NextConnector]_vars

\* ------------------------------------------------- the connection URL ---

\* the most query pairs a connection URL holds
MaxPairs == 2

Digits == {"0", "1", "2", "3", "4", "5", "6", "7", "8", "9"}

DigitValue(c) ==
    CASE c = "0" -> 0 [] c = "1" -> 1 [] c = "2" -> 2 [] c = "3" -> 3 [] c = "4" -> 4
      [] c = "5" -> 5 [] c = "6" -> 6 [] c = "7" -> 7 [] c = "8" -> 8 [] c = "9" -> 9

RECURSIVE DigitsValue(_, _)
\* the number written by the digits s after the number acc
DigitsValue(s, acc) ==
    IF s = <<>> THEN acc ELSE DigitsValue(Tail(s), 10 * acc + DigitValue(Head(s)))

\* v.parse::<usize>(): an optional + and at least one digit, nothing else
ParseUsize(v) ==
    LET digits == IF v # <<>> /\ Head(v) = "+" THEN Tail(v) ELSE v
    IN  IF digits # <<>> /\ \A i \in 1..Len(digits) : digits[i] \in Digits
        THEN Some(DigitsValue(digits, 0))
        ELSE None

\* v.parse::<bool>(): exactly true or false
ParseBool(v) ==
    CASE v = <<"t", "r", "u", "e">> -> Some(TRUE)
      [] v = <<"f", "a", "l", "s", "e">> -> Some(FALSE)
      [] OTHER -> None

QueryPair(k, v) == [k |-> k, v |-> v]

\* the query pairs a connection URL may hold
QueryPairs ==
    { QueryPair("pgbouncer", <<"t", "r", "u", "e">>),
      QueryPair("pgbouncer", <<"f", "a", "l", "s", "e">>),
      QueryPair("pgbouncer", <<"1">>),
      QueryPair("statement_cache_size", <<"4", "2", "0">>),
      QueryPair("statement_cache_size", <<"0">>),
      QueryPair("statement_cache_size", <<"4", "k">>),
      QueryPair("sslmode", <<"r", "e", "q", "u", "i", "r", "e">>),
      QueryPair("sslmode", <<"d", "i", "s", "a", "b", "l", "e">>),
      QueryPair("sslmode", <<"f", "u", "l", "l">>),
      QueryPair("sslaccept", <<"s", "t", "r", "i", "c", "t">>),
      QueryPair("sslaccept", <<"n", "o">>),
      QueryPair("connection_limit", <<"3">>),
      QueryPair("connection_limit", <<"-", "1">>),
      QueryPair("socket_timeout", <<"5">>),
      QueryPair("socket_timeout", <<"5", "s">>),
      QueryPair("connect_timeout", <<>>),
      QueryPair("application_name", <<"q">>) }

\* the paths a connection URL may have: none, /, /db, /db/x
Paths == { <<>>, <<"/">>, <<"/", "d", "b">>, <<"/", "d", "b", "/", "x">> }

\* the connection URLs a caller may give: a path and the query pairs
Urls ==
    { [path |-> path, query_pairs |-> pairs] :
        path \in Paths, pairs \in UNION { [1..n -> QueryPairs] : n \in 0..MaxPairs } }

\* the values parse_query_params starts from
DefaultQueryParams ==
    [connection_limit |-> None,
     schema |-> <<"p", "u", "b", "l", "i", "c">>,
     certificate_file |-> None,
     identity_file |-> None,
     identity_password |-> None,
     ssl_accept_mode |-> "AcceptInvalidCerts",
     ssl_mode |-> "Prefer",
     host |-> None,
     socket_timeout |-> None,
     connect_timeout |-> None,
     pg_bouncer |-> FALSE,
     statement_cache_size |-> 500]

InvalidConnectionArguments == [err |-> "InvalidConnectionArguments"]

\* Parsed for a parser that leaves the field alone when the value does not parse
Parsed_ignoring_errors(qp, parsed, field) ==
    IF parsed = None THEN qp
    ELSE CASE field = "pg_bouncer" -> [qp EXCEPT !.pg_bouncer = parsed[1]]
           [] field = "statement_cache_size" -> [qp EXCEPT !.statement_cache_size = parsed[1]]
           [] field = "connection_limit" -> [qp EXCEPT !.connection_limit = parsed]
           [] field = "socket_timeout" -> [qp EXCEPT !.socket_timeout = parsed]
           [] field = "connect_timeout" -> [qp EXCEPT !.connect_timeout = parsed]

\* a parsed value stored in a field, or the error of a value that does not parse
Parsed(qp, parsed, field) ==
    IF parsed = None THEN InvalidConnectionArguments
    ELSE CASE field = "pg_bouncer" -> [qp EXCEPT !.pg_bouncer = parsed[1]]
           [] field = "statement_cache_size" -> [qp EXCEPT !.statement_cache_size = parsed[1]]
           [] field = "connection_limit" -> [qp EXCEPT !.connection_limit = parsed]
           [] field = "socket_timeout" -> [qp EXCEPT !.socket_timeout = parsed]
           [] field = "connect_timeout" -> [qp EXCEPT !.connect_timeout = parsed]

\* the body of the loop of parse_query_params for the pair (k, v)
QueryPairArm(qp, k, v) ==
    CASE k = "pgbouncer" -> Parsed(qp, ParseBool(v), "pg_bouncer")
      [] k = "sslmode" ->
            (CASE v = <<"d", "i", "s", "a", "b", "l", "e">> -> [qp EXCEPT !.ssl_mode = "Disable"]
               [] v = <<"p", "r", "e", "f", "e", "r">> -> [qp EXCEPT !.ssl_mode = "Prefer"]
               [] v = <<"r", "e", "q", "u", "i", "r", "e">> -> [qp EXCEPT !.ssl_mode = "Require"]
               [] OTHER -> qp)
      [] k = "sslcert" -> [qp EXCEPT !.certificate_file = Some(v)]
      [] k = "sslidentity" -> [qp EXCEPT !.identity_file = Some(v)]
      [] k = "sslpassword" -> [qp EXCEPT !.identity_password = Some(v)]
      [] k = "statement_cache_size" -> Parsed(qp, ParseUsize(v), "statement_cache_size")
      [] k = "sslaccept" ->
            (CASE v = <<"s", "t", "r", "i", "c", "t">> -> [qp EXCEPT !.ssl_accept_mode = "Strict"]
               [] v = <<"a", "c", "c", "e", "p", "t", "_", "i", "n", "v", "a", "l", "i", "d",
                        "_", "c", "e", "r", "t", "s">> ->
                        [qp EXCEPT !.ssl_accept_mode = "AcceptInvalidCerts"]
               [] OTHER -> [qp EXCEPT !.ssl_accept_mode = "Strict"])
      [] k = "schema" -> [qp EXCEPT !.schema = v]
      [] k = "connection_limit" -> Parsed(qp, ParseUsize(v), "connection_limit")
      [] k = "host" -> [qp EXCEPT !.host = Some(v)]
      [] k = "socket_timeout" -> Parsed(qp, ParseUsize(v), "socket_timeout")
      [] k = "connect_timeout" -> Parsed(qp, ParseUsize(v), "connect_timeout")
      [] OTHER -> qp

RECURSIVE QueryPairsLoop(_, _)
\* for (k, v) in url.query_pairs() { .. }: the first error returns
QueryPairsLoop(pairs, qp) ==
    IF pairs = <<>> THEN qp
    ELSE LET next == QueryPairArm(qp, Head(pairs).k, Head(pairs).v)
         IN  IF "err" \in DOMAIN next THEN next ELSE QueryPairsLoop(Tail(pairs), next)

\* PostgresUrl::parse_query_params(url)
parse_query_params(pairs) == QueryPairsLoop(pairs, DefaultQueryParams)

\* PostgresUrl::new(url): the url with its query_params, or the error
PostgresUrl_new(new_url) ==
    LET query_params == parse_query_params(new_url.query_pairs)
    IN  IF "err" \in DOMAIN query_params THEN [err |-> query_params.err]
        ELSE [url |-> new_url, query_params |-> query_params]

\* PostgresUrl::dbname(): Url::path_segments() is None unless the path starts
\* with /, and otherwise splits what follows the first / at every /, so that
\* its first segment always exists and may be empty
PostgresUrl_dbname(self) ==
    LET path == self.url.path
        first_slash(rest) ==
            IF \E k \in 1..Len(rest) : rest[k] = "/"
            THEN CHOOSE k \in 1..Len(rest) :
                     rest[k] = "/" /\ \A j \in 1..(k - 1) : rest[j] # "/"
            ELSE Len(rest) + 1
        path_segments ==
            IF path # <<>> /\ Head(path) = "/"
            THEN Some(SubSeq(Tail(path), 1, first_slash(Tail(path)) - 1))
            ELSE None
    IN  IF path_segments = None THEN <<"p", "o", "s", "t", "g", "r", "e", "s">>
        ELSE path_segments[1]

\* a cache as large as statement_cache_size says, PgBouncer or not
PostgresUrl_cache_any_mode(self) == self.query_params.statement_cache_size

\* PostgresUrl::cache(): the capacity of the statement cache
PostgresUrl_cache(self) ==
    IF self.query_params.pg_bouncer = TRUE THEN 0
    ELSE self.query_params.statement_cache_size

InitUrl ==
    /\ select = None
    /\ stack = <<>>
    /\ calls = <<>>
    /\ where = None
    /\ sql = <<>>
    /\ parameters = <<>>
    /\ pc = "building"
    /\ connector = None
    /\ tasks = <<>>
    /\ holders = {}
    /\ url \in Urls
    /\ postgres_url = None
    /\ conv_value = None
    /\ conv_type = None
    /\ conv_bound = None
    /\ conv_row = None
    /\ insert = None

\* let url = PostgresUrl::new(Url::parse(..))
NewPostgresUrl ==
    /\ postgres_url = None
    /\ postgres_url' = Some(PostgresUrl_new(url))
    /\ UNCHANGED <<builderVars, connectorVars, url, conversionVars, insert>>

SpecUrl == InitUrl /\ [][NewPostgresUrl]_vars

\* ---------------------------------------------------------- conversions ---

\* the most elements an Array value holds
MaxArray == 2

\* the i64 x: its four 16-bit limbs, least significant first, in two's complement
I64(x) ==
    << x % 65536, (x \div 65536) % 65536,
       IF x < 0 THEN 65535 ELSE 0, IF x < 0 THEN 65535 ELSE 0 >>

\* the number an i64 that fits 32 bits stands for
I64Value(i) ==
    IF i[2] >= 32768 THEN (i[2] - 65536) * 65536 + i[1] ELSE i[2] * 65536 + i[1]

\* i as i16, i as i32, i as u32: the low bits of i are kept, the others dropped
Cast(i, ty) ==
    [ty |-> ty,
     bits |-> CASE ty = "i16" -> <<i[1]>>
                [] ty \in {"i32", "u32"} -> <<i[1], i[2]>>
                [] OTHER -> i]

\* Option::map
OptionMap(F(_), o) == IF o = None THEN None ELSE Some(F(o[1]))

\* a Value: its variant and its payload, None when absent
Value(variant, payload) == [variant |-> variant, payload |-> payload]

Ok(x) == [ok |-> x]

\* the integers a caller may bind
ConvIntegers ==
    { I64(0), I64(7), I64(32767), I64(32768), I64(0 - 1), I64(0 - 32769),
      I64(2147483647), <<0, 32768, 0, 0>>, <<0, 0, 1, 0>>,
      <<65535, 65535, 65535, 32767>> }

\* the instants a caller may bind: seconds since 1970 and nanoseconds within the second
ConvDateTimes ==
    { [secs |-> 0, nsecs |-> 0], [secs |-> 1, nsecs |-> 5000000],
      [secs |-> 0 - 2, nsecs |-> 0], [secs |-> 0 - 1, nsecs |-> 999000000] }

\* the elements of the arrays a caller may bind
ArrayElements ==
    { Value("Integer", Some(I64(1))), Value("Integer", None),
      Value("Text", Some(<<"a">>)), Value("Boolean", Some(TRUE)) }

\* the values a caller may bind
ConvValues ==
    { Value("Integer", Some(i)) : i \in ConvIntegers }
      \cup { Value("DateTime", Some(d)) : d \in ConvDateTimes }
      \cup { Value("Array", Some(a)) :
               a \in UNION { [1..n -> ArrayElements] : n \in 0..MaxArray } }
      \cup { Value("Real", Some(2)), Value("Real", Some(16777217)),
             Value("Text", Some(<<"a">>)), Value("Enum", Some(<<"a">>)),
             Value("Bytes", Some(<<4, 2, 0>>)), Value("Boolean", Some(TRUE)),
             Value("Boolean", Some(FALSE)), Value("Char", Some("c")),
             Value("Json", Some([json |-> "String", str |-> <<"a">>])),
             Value("Uuid", Some([k \in 1..32 |-> "a"])),
             Value("Date", Some(1)),
             Value("Time", Some([secs |-> 3661, nanos |-> 0])) }
      \cup { Value(variant, None) :
               variant \in { "Integer", "Real", "Text", "Enum", "Bytes", "Boolean", "Char",
                             "Array", "Json", "Uuid", "DateTime", "Date", "Time" } }

\* the types PostgreSQL may describe a parameter with, None when it gives none
PgTypes ==
    { None, Some("INT2"), Some("INT4"), Some("OID"), Some("INT8"),
      Some("INT2[]"), Some("INT4[]"), Some("INT8[]"), Some("OID[]"), Some("BOOL[]"),
      Some("TEXT[]"), Some("VARCHAR[]"), Some("NAME[]"), Some("POINT[]") }

\* the declared types of the SQLite columns a value is stored in
SqliteTypes ==
    { Some("INTEGER"), Some("REAL"), Some("TEXT"), Some("BLOB"), Some("BOOLEAN"),
      Some("DATETIME"), Some("NULL") }

\* Value::as_i64, as_bool, into_string: the payload when the variant is the one
\* asked for and the value is present, otherwise None
Value_as(v, variant) == IF v.variant = variant THEN v.payload ELSE None

RECURSIVE CollectElements_skipping(_, _, _, _)
\* a loop that leaves out the elements of another kind instead of failing
CollectElements_skipping(ary, variant, ty, vals) ==
    IF ary = <<>> THEN Ok(Some([ty |-> ty, elements |-> vals]))
    ELSE LET val == Value_as(Head(ary), variant)
         IN  CollectElements_skipping(Tail(ary), variant, ty,
                 IF val = None THEN vals ELSE Append(vals, val[1]))

RECURSIVE CollectElements(_, _, _, _)
\* for val in ary.into_iter().map(..) { match val { Some(x) => vals.push(x), None => Err(..)? } }
CollectElements(ary, variant, ty, vals) ==
    IF ary = <<>> THEN Ok(Some([ty |-> ty, elements |-> vals]))
    ELSE LET val == Value_as(Head(ary), variant)
         IN  IF val = None THEN [err |-> "ConversionError"]
             ELSE CollectElements(Tail(ary), variant, ty,
                      Append(vals, IF variant = "Integer" /\ ty # "i64"
                                   THEN Cast(val[1], ty) ELSE val[1]))

\* Bind::bind_value of the PostgreSQL connector: Ok(the argument bound, None for
\* NULL) or Err.  The arms of the types PgTypes draws; TEXT, the float, bit,
\* network and date types have arms of their own.
Postgres_bind_value(value, type_info) ==
    LET v == value.variant
        p == value.payload
        \* one arm of an array type: NULL for an absent array
        BindArray(ary_opt, variant, ty) ==
            IF ary_opt = None THEN Ok(None)
            ELSE CollectElements(ary_opt[1], variant, ty, <<>>)
    IN  CASE v = "Integer" /\ type_info = Some("INT2") ->
                 Ok(OptionMap(LAMBDA i : Cast(i, "i16"), p))
          [] v = "Integer" /\ type_info = Some("INT4") ->
                 Ok(OptionMap(LAMBDA i : Cast(i, "i32"), p))
          [] v = "Integer" /\ type_info = Some("OID") ->
                 Ok(OptionMap(LAMBDA i : Cast(i, "u32"), p))
          [] v = "Integer" -> Ok(OptionMap(LAMBDA i : Cast(i, "i32"), p))
          [] v = "Real" -> Ok(OptionMap(LAMBDA d : [ty |-> "Decimal", decimal |-> d], p))
          [] v \in {"Text", "Enum"} -> Ok(OptionMap(LAMBDA c : [ty |-> "String", str |-> c], p))
          [] v = "Bytes" -> Ok(OptionMap(LAMBDA c : [ty |-> "Vec<u8>", bytes |-> c], p))
          [] v = "Boolean" -> Ok(OptionMap(LAMBDA b : [ty |-> "bool", bool |-> b], p))
          [] v = "Char" -> Ok(OptionMap(LAMBDA c : [ty |-> "i8", char |-> c], p))
          [] v = "Array" /\ type_info = Some("INT2[]") -> BindArray(p, "Integer", "i16")
          [] v = "Array" /\ type_info = Some("INT4[]") -> BindArray(p, "Integer", "i32")
          [] v = "Array" /\ type_info = Some("INT8[]") -> BindArray(p, "Integer", "i64")
          [] v = "Array" /\ type_info = Some("OID[]") -> BindArray(p, "Integer", "u32")
          [] v = "Array" /\ type_info = Some("BOOL[]") -> BindArray(p, "Boolean", "bool")
          [] v = "Array" /\ type_info \in {Some("TEXT[]"), Some("VARCHAR[]"), Some("NAME[]")} ->
                 BindArray(p, "Text", "String")
          [] v = "Array" -> [err |-> "ConversionError"]
          [] v = "Json" -> Ok(OptionMap(LAMBDA j : [ty |-> "Json", json |-> j], p))
          [] v = "Uuid" -> Ok(OptionMap(LAMBDA u : [ty |-> "Uuid", uuid |-> u], p))
          [] v = "DateTime" -> Ok(OptionMap(LAMBDA d : [ty |-> "DateTime", datetime |-> d], p))
          [] v = "Date" -> Ok(OptionMap(LAMBDA d : [ty |-> "NaiveDate", date |-> d], p))
          [] v = "Time" -> Ok(OptionMap(LAMBDA t : [ty |-> "NaiveTime", time |-> t], p))

\* DateTime::timestamp_millis
timestamp_millis(d) == d.secs * 1000 + d.nsecs \div 1000000

\* a SqliteValue: Integer, Real, Text, Bytes or Boolean with an optional payload
SqliteValue(sv, payload) == [sv |-> sv, payload |-> payload]

\* SqliteValue::try_from(v)
SqliteValue_try_from(v) ==
    LET p == v.payload
        to_hyphenated(u) ==
            SubSeq(u, 1, 8) \o <<"-">> \o SubSeq(u, 9, 12) \o <<"-">> \o SubSeq(u, 13, 16)
              \o <<"-">> \o SubSeq(u, 17, 20) \o <<"-">> \o SubSeq(u, 21, 32)
        to_string(j) == <<"\"">> \o j.str \o <<"\"">>
        \* exact for the whole numbers below 2^53
        to_f64(r) == [f64 |-> r]
    IN  CASE v.variant = "Integer" -> Ok(SqliteValue("Integer", p))
          [] v.variant = "Real" -> Ok(SqliteValue("Real", OptionMap(to_f64, p)))
          [] v.variant \in {"Text", "Enum"} -> Ok(SqliteValue("Text", p))
          [] v.variant = "Bytes" -> Ok(SqliteValue("Bytes", p))
          [] v.variant = "Boolean" -> Ok(SqliteValue("Boolean", p))
          [] v.variant = "Char" -> Ok(SqliteValue("Text", OptionMap(LAMBDA c : <<c>>, p)))
          [] v.variant = "Array" -> [err |-> "ConversionError"]
          [] v.variant = "Json" -> Ok(SqliteValue("Text", OptionMap(to_string, p)))
          [] v.variant = "Uuid" -> Ok(SqliteValue("Text", OptionMap(to_hyphenated, p)))
          [] v.variant = "DateTime" ->
                 Ok(SqliteValue("Integer", OptionMap(LAMBDA d : I64(timestamp_millis(d)), p)))
          [] v.variant = "Date" ->
                 Ok(SqliteValue("Integer", OptionMap(LAMBDA d : I64(d * 86400000), p)))
          [] v.variant = "Time" ->
                 Ok(SqliteValue("Integer", OptionMap(LAMBDA t : I64(t.secs * 1000), p)))

\* a bind_value that binds NULL for a value try_from refuses
Sqlite_bind_value_unchecked(value) ==
    LET converted == SqliteValue_try_from(value)
    IN  IF "err" \in DOMAIN converted THEN Ok(SqliteValue("Integer", None))
        ELSE Ok(converted.ok)

\* Bind::bind_value of the SQLite connector: Ok(the SqliteValue bound) or the
\* error of try_from, with nothing bound
Sqlite_bind_value(value) ==
    LET converted == SqliteValue_try_from(value)
    IN  IF "err" \in DOMAIN converted THEN converted ELSE Ok(converted.ok)

\* <T as Type<Sqlite>>::compatible(ti), by the name of the declared type
compatible(T, ti) ==
    CASE T = "i64" -> ti \in {"INTEGER", "DATETIME"}
      [] T \in {"f32", "f64"} -> ti = "REAL"
      [] T = "String" -> ti = "TEXT"
      [] T = "Vec<u8>" -> ti = "BLOB"
      [] T = "bool" -> ti = "BOOLEAN"

\* what map_row makes of one column: the value stored and the name ti of the
\* declared type of its column.  A DATETIME column here holds an integer.
map_row(ti, stored) ==
    LET \* a % b and a / b of Rust: the quotient is truncated towards zero
        RustRem(a, b) == IF a < 0 THEN 0 - ((0 - a) % b) ELSE a % b
        RustDiv(a, b) == IF a < 0 THEN 0 - ((0 - a) \div b) ELSE a \div b
        \* NaiveDateTime::from_timestamp(secs, nsecs), nsecs a u32 in two limbs:
        \* it panics when nsecs is not below 2_000_000_000
        from_timestamp(secs, nsecs) ==
            IF nsecs.bits[2] < 30517 \/ (nsecs.bits[2] = 30517 /\ nsecs.bits[1] < 37888)
            THEN Ok([secs |-> secs, nsecs |-> nsecs.bits[2] * 65536 + nsecs.bits[1]])
            ELSE [panic |-> "invalid or out-of-range datetime"]
        \* the whole number x below 2^25 read as an f32: the nearest f32, ties to
        \* the even mantissa
        DecodeF32(x) ==
            IF x <= 16777216 \/ x % 2 = 0 THEN x
            ELSE IF ((x - 1) \div 2) % 2 = 0 THEN x - 1 ELSE x + 1
    IN  CASE compatible("i64", ti) /\ ti = "DATETIME" ->
                 IF stored = None THEN Ok(Value("DateTime", None))
                 ELSE LET ts == I64Value(stored[1])
                          nsecs == Cast(I64(RustRem(ts, 1000) * 1000000), "u32")
                          secs == RustDiv(ts, 1000)
                          naive == from_timestamp(secs, nsecs)
                      IN  IF "panic" \in DOMAIN naive THEN naive
                          ELSE Ok(Value("DateTime", Some(naive.ok)))
          [] compatible("i64", ti) -> Ok(Value("Integer", stored))
          [] compatible("f32", ti) ->
                 Ok(Value("Real", OptionMap(LAMBDA f : DecodeF32(f.f64), stored)))
          [] compatible("f64", ti) -> Ok(Value("Real", OptionMap(LAMBDA f : f.f64, stored)))
          [] compatible("String", ti) -> Ok(Value("Text", stored))
          [] compatible("Vec<u8>", ti) -> Ok(Value("Bytes", stored))
          [] compatible("bool", ti) -> Ok(Value("Boolean", stored))
          [] ti = "NULL" -> Ok(Value("Integer", None))
          [] OTHER -> [err |-> "ColumnDecode"]

InitConversion ==
    /\ select = None
    /\ stack = <<>>
    /\ calls = <<>>
    /\ where = None
    /\ sql = <<>>
    /\ parameters = <<>>
    /\ pc = "building"
    /\ connector = None
    /\ tasks = <<>>
    /\ holders = {}
    /\ url = <<>>
    /\ postgres_url = None
    /\ conv_value \in ConvValues
    /\ conv_type \in PgTypes \cup SqliteTypes
    /\ conv_bound = None
    /\ conv_row = None
    /\ insert = None

\* query.bind_value(value, type_info) on a query of the PostgreSQL connector
PostgresBindValue ==
    /\ conv_bound = None
    /\ conv_type \in PgTypes
    /\ conv_bound' = Some([db |-> "postgres",
                           result |-> Postgres_bind_value(conv_value, conv_type)])
    /\ UNCHANGED <<builderVars, connectorVars, urlVars, insert, conv_value, conv_type, conv_row>>

\* query.bind_value(value, None) on a query of the SQLite connector
SqliteBindValue ==
    /\ conv_bound = None
    /\ conv_type \in SqliteTypes
    /\ conv_bound' = Some([db |-> "sqlite", result |-> Sqlite_bind_value(conv_value)])
    /\ UNCHANGED <<builderVars, connectorVars, urlVars, insert, conv_value, conv_type, conv_row>>

\* map_row on the row read back from the column the bound value was stored in
SqliteMapRow ==
    /\ conv_row = None
    /\ conv_bound # None
    /\ conv_bound[1].db = "sqlite"
    /\ "ok" \in DOMAIN conv_bound[1].result
    /\ LET ti == conv_type[1]
           bound == conv_bound[1].result.ok
       IN  \* the column can hold the value bound: NULL anywhere, otherwise a value
           \* of the storage class of the column, in a DATETIME column a
           \* timestamp that fits 32 bits
           IF bound.payload = None THEN TRUE
           ELSE /\ ti # "NULL"
                /\ compatible(CASE bound.sv = "Integer" -> "i64"
                                [] bound.sv = "Real" -> "f64"
                                [] bound.sv = "Text" -> "String"
                                [] bound.sv = "Bytes" -> "Vec<u8>"
                                [] bound.sv = "Boolean" -> "bool", ti)
                /\ ti = "DATETIME" =>
                       LET i == bound.payload[1]
                       IN  i[3] = i[4] /\ i[3] = (IF i[2] >= 32768 THEN 65535 ELSE 0)
    /\ conv_row' = Some(map_row(conv_type[1], conv_bound[1].result.ok.payload))
    /\ UNCHANGED <<builderVars, connectorVars, urlVars, insert, conv_value, conv_type, conv_bound>>

NextConversion ==
    \/ PostgresBindValue
    \/ SqliteBindValue
    \/ SqliteMapRow

SpecConversion == InitConversion /\ [][NextConversion]_vars

\* ------------------------------------------------ the PostgreSQL visitor ---

\* the names of the tables and columns of an insert
PgNames == { <<"n">>, <<"u", "\"", "$", "1">> }

\* the values of an insert
PgValues == { Text(<<"j", "o", "e">>), Text(<<"$", "2">>), Integer(7) }

\* Insert::single_into(table)
Insert_single_into(table) == [table |-> table, columns |-> <<>>, values |-> <<>>]

\* insert.value(column, val)
Insert_value(self, column, val) ==
    [self EXCEPT !.columns = Append(@, column), !.values = Append(@, val)]

\* a placeholder that is always $1
Postgres_parameter_substitution_first(params) == <<"$", "1">>

\* C_PARAM of the PostgreSQL visitor: $N, N the number of values appended so far
Postgres_parameter_substitution(params) == <<"$">> \o Decimal(Len(params))

\* the PostgreSQL visitor on an insert: INSERT INTO "t" ("c1",..) VALUES ($1,..),
\* or DEFAULT VALUES for an insert without values; every identifier in
\* double quotes with the embedded ones doubled
Postgres_visit_insert(params, self) ==
    LET RECURSIVE escape(_)
        escape(part) ==
            IF part = <<>> THEN <<>>
            ELSE (IF Head(part) = "\"" THEN <<"\"", "\"">> ELSE <<Head(part)>>)
                   \o escape(Tail(part))
        quote(part) == <<"\"">> \o escape(part) \o <<"\"">>
        RECURSIVE visit_row(_, _)
        visit_row(ps, row) ==
            IF row = <<>> THEN Emit(<<>>, ps)
            ELSE LET appended == add_parameter(ps, Head(row))
                     rest == visit_row(appended, Tail(row))
                 IN  Emit(Postgres_parameter_substitution(appended)
                            \o (IF Tail(row) = <<>> THEN <<>> ELSE <<",">>) \o rest.out,
                          rest.parameters)
        row == visit_row(params, self.values)
        columns == Join([k \in 1..Len(self.columns) |-> quote(self.columns[k])], <<",">>)
    IN  IF self.values = <<>>
        THEN Emit(<<"INSERT", " ", "INTO", " ">> \o quote(self.table)
                    \o <<" ", "DEFAULT", " ", "VALUES">>, params)
        ELSE Emit(<<"INSERT", " ", "INTO", " ">> \o quote(self.table)
                    \o <<" ", "(">> \o columns \o <<")", " ", "VALUES", " ", "(">>
                    \o row.out \o <<")">>,
                  row.parameters)

\* visitor::Postgres::build(query): a fresh visitor with no parameters visits
\* the query; the result is (text, parameters)
Postgres_build(query) ==
    LET visited == Postgres_visit_insert(<<>>, query)
    IN  <<visited.out, visited.parameters>>

InitPostgres ==
    /\ select = None
    /\ stack = <<>>
    /\ calls = <<>>
    /\ where = None
    /\ sql = <<>>
    /\ parameters = <<>>
    /\ pc = "building"
    /\ connector = None
    /\ tasks = <<>>
    /\ holders = {}
    /\ url = <<>>
    /\ postgres_url = None
    /\ conv_value = None
    /\ conv_type = None
    /\ conv_bound = None
    /\ conv_row = None
    /\ insert \in { Some(Insert_single_into(table)) : table \in PgNames }

\* insert.value(column, val)
InsertValue ==
    /\ pc = "building"
    /\ Len(insert[1].values) < MaxSize
    /\ \E column \in PgNames, val \in PgValues :
         insert' = Some(Insert_value(insert[1], column, val))
    /\ UNCHANGED <<builderVars, connectorVars, urlVars, conversionVars>>

\* PostgreSql::query(insert.into()): let (sql, params) = visitor::Postgres::build(q)?
PostgresBuild ==
    /\ pc = "building"
    /\ LET result == Postgres_build(insert[1])
       IN  /\ sql' = result[1]
           /\ parameters' = result[2]
    /\ pc' = "built"
    /\ UNCHANGED <<select, stack, calls, where, connectorVars, urlVars, conversionVars, insert>>

NextPostgres ==
    \/ InsertValue
    \/ PostgresBuild

SpecPostgres == InitPostgres /\ [][NextPostgres]_vars

\* ------------------------------------------- reading the emitted text ---

\* The emitted text read back the way SQLite's tokenizer reads it: a
\* backtick opens an identifier, two backticks inside an identifier are
\* one backtick of the name, one backtick closes it.  The result is a
\* sequence of [id |-> name] (an identifier), [ch |-> c] (any other
\* character) and, for an identifier that is never closed, [open |-> name].
RECURSIVE Scan(_, _, _)
Scan(text, i, cur) ==
    IF i > Len(text)
    THEN IF cur = None THEN <<>> ELSE << [open |-> cur[1]] >>
    ELSE IF cur = None
         THEN IF text[i] = Backtick
              THEN Scan(text, i + 1, Some(<<>>))
              ELSE << [ch |-> text[i]] >> \o Scan(text, i + 1, None)
         ELSE IF text[i] = Backtick
              THEN IF i < Len(text) /\ text[i + 1] = Backtick
                   THEN Scan(text, i + 2, Some(Append(cur[1], Backtick)))
                   ELSE << [id |-> cur[1]] >> \o Scan(text, i + 1, None)
              ELSE Scan(text, i + 1, Some(Append(cur[1], text[i])))

Tokens(text) == Scan(text, 1, None)

IsCh(token, c) == "ch" \in DOMAIN token /\ token.ch = c

IsId(token) == "id" \in DOMAIN token

\* the number of placeholders of a text: the ? outside identifiers
Placeholders(text) ==
    LET tokens == Tokens(text)
    IN  Cardinality({ i \in 1..Len(tokens) : IsCh(tokens[i], "?") })

\* the position of the first occurrence of pattern in text, 0 if none
IndexOf(text, pattern) ==
    LET hits == { i \in 1..(Len(text) - Len(pattern) + 1) :
                    SubSeq(text, i, i + Len(pattern) - 1) = pattern }
    IN  IF hits = {} THEN 0 ELSE CHOOSE i \in hits : \A j \in hits : i <= j

Contains(text, pattern) == IndexOf(text, pattern) # 0

StartsWith(text, prefix) ==
    Len(prefix) <= Len(text) /\ SubSeq(text, 1, Len(prefix)) = prefix

\* the literal values of an expression of the caller, left to right, each
\* as the parameter it is to be bound as
RECURSIVE CallValues(_)
CallValues(c) ==
    IF IsComparableCall(c)
    THEN CASE c.call \in ValueMethods \cup BetweenMethods ->
                [i \in 1..Len(c.args) |->
                    IF "str" \in DOMAIN c.args[i]
                    THEN [pv |-> "Text", text |-> c.args[i].str]
                    ELSE [pv |-> "Integer", int |-> c.args[i].int]]
           [] c.call \in {"like", "not_like"} ->
                << [pv |-> "Text", text |-> <<"%">> \o c.args[1].str \o <<"%">>] >>
           [] c.call \in {"begins_with", "not_begins_with"} ->
                << [pv |-> "Text", text |-> c.args[1].str \o <<"%">>] >>
           [] c.call \in {"ends_into", "not_ends_into"} ->
                << [pv |-> "Text", text |-> <<"%">> \o c.args[1].str] >>
           [] c.call \in NullMethods -> <<>>
    ELSE IF c.call = "not" THEN CallValues(c.recv)
    ELSE CallValues(c.recv) \o CallValues(c.arg)

RECURSIVE SelectListValues(_)
\* the values given to Select::value, in call order
SelectListValues(columns) ==
    IF columns = <<>> THEN <<>>
    ELSE (IF Head(columns).dv = "Parameterized" THEN <<Head(columns).value>> ELSE <<>>)
           \o SelectListValues(Tail(columns))

\* every literal value the caller wrote into the query, in reading order
WrittenValues ==
    SelectListValues(select[1].columns)
      \o (IF where = None THEN <<>> ELSE CallValues(where[1]))

\* characters that occur in the caller's values and nowhere else
ValueChars == {"m", "%", "_", "7"}

\* ------------------------------------------------------------- claims ---

\* C1: build returns a text whose number of ? placeholders equals the
\* length of the parameter list, one parameter per literal value the caller
\* wrote, and no character of a value appears in the text.
C1_PlaceholdersMatchParams ==
    pc = "built" =>
        /\ Placeholders(sql) = Len(parameters)
        /\ Len(parameters) = Len(WrittenValues)
        /\ \A i \in 1..Len(sql) : sql[i] \notin ValueChars

\* a built query with two values and a ? inside a quoted identifier
C1_Witness ==
    /\ pc = "built"
    /\ Len(parameters) >= 2
    /\ \E i \in 1..Len(Tokens(sql)) :
          IsId(Tokens(sql)[i]) /\ Tokens(sql)[i].id = <<"a", Backtick, "?">>

\* the text of the WHERE clause of a select: what follows " WHERE " up to
\* " LIMIT " or the end
WhereClause(text) ==
    LET i == IndexOf(text, <<" ">> \o <<"WHERE">> \o <<" ">>)
        rest == SubSeq(text, i + 3, Len(text))
        j == IndexOf(rest, <<" ">> \o <<"LIMIT">> \o <<" ">>)
    IN  IF i = 0 THEN <<>>
        ELSE IF j = 0 THEN rest ELSE SubSeq(rest, 1, j - 1)

\* the AST the caller's expression builds
RECURSIVE Eval(_)
Eval(c) ==
    IF IsComparableCall(c) THEN Comparable(c.call, c.kind, c.args)
    ELSE CASE c.call = "and" -> Conjuctive_and(Eval(c.recv), Eval(c.arg))
           [] c.call = "or" -> Conjuctive_or(Eval(c.recv), Eval(c.arg))
           [] c.call = "not" -> Conjuctive_not(Eval(c.recv))

\* the query with the caller's expression c as its condition
WithCondition(c) == Select_so_that([select[1] EXCEPT !.conditions = None], Eval(c))

\* C2: the k-th placeholder of the text refers to the k-th parameter: the
\* parameters are the caller's values in reading order (a.and(b).and(c)
\* binds the values of a, b, c in that order; between binds its lower
\* bound before its upper bound), and the identifier that precedes the k-th
\* placeholder is the column the k-th value is compared with.
\* for each placeholder of the text, the identifier last seen before it
PlaceholderColumns(tokens) ==
    LET before(i) == { j \in 1..(i - 1) : IsId(tokens[j]) }
        last(i) == IF before(i) = {} THEN None
                   ELSE Some(tokens[CHOOSE j \in before(i) :
                                       \A k \in before(i) : k <= j].id)
    IN  Concat([i \in 1..Len(tokens) |->
                   IF IsCh(tokens[i], "?") THEN <<last(i)>> ELSE <<>>])

RECURSIVE CallColumns(_)
\* for each value of an expression of the caller, the column it is compared with
CallColumns(c) ==
    IF IsComparableCall(c)
    THEN [i \in 1..Len(CallValues(c)) |-> Some(c.kind[Len(c.kind)])]
    ELSE IF c.call = "not" THEN CallColumns(c.recv)
    ELSE CallColumns(c.recv) \o CallColumns(c.arg)

RECURSIVE SelectListColumns(_, _)
\* for each value of the select list, the column written last before it
SelectListColumns(columns, last) ==
    IF columns = <<>> THEN <<>>
    ELSE IF Head(columns).dv = "Column"
         THEN SelectListColumns(Tail(columns), Some(Head(columns).column.name))
         ELSE <<last>> \o SelectListColumns(Tail(columns), last)

C2_PlaceholderOrder ==
    pc = "built" =>
        /\ parameters = WrittenValues
        /\ PlaceholderColumns(Tokens(sql))
             = SelectListColumns(select[1].columns, None)
                 \o (IF where = None THEN <<>> ELSE CallColumns(where[1]))

\* a.and(b).and(c) with three values, the first two different
C2_Witness ==
    /\ pc = "built"
    /\ where # None
    /\ ~IsComparableCall(where[1])
    /\ where[1].call = "and"
    /\ ~IsComparableCall(where[1].recv)
    /\ where[1].recv.call = "and"
    /\ Len(parameters) = 3
    /\ parameters[1] # parameters[2]

\* C3: the bound parameter of a pattern comparison is "%" p "%" for like and
\* not_like, p "%" for begins_with and not_begins_with, "%" p for ends_into
\* and not_ends_into, p unchanged; a negated variant binds what its positive
\* variant binds and its text is the positive variant's text with NOT LIKE
\* for LIKE.
PositiveMethod(m) ==
    CASE m \in {"like", "not_like"} -> "like"
      [] m \in {"begins_with", "not_begins_with"} -> "begins_with"
      [] m \in {"ends_into", "not_ends_into"} -> "ends_into"

BracketedPattern(m, p) ==
    CASE m = "like" -> <<"%">> \o p \o <<"%">>
      [] m = "begins_with" -> p \o <<"%">>
      [] m = "ends_into" -> <<"%">> \o p

\* the text with NOT put before its LIKE
WithNotLike(text) ==
    LET i == IndexOf(text, <<"LIKE">>)
    IN  SubSeq(text, 1, i - 1) \o <<"NOT">> \o <<" ">> \o SubSeq(text, i, Len(text))

C3_PatternParameter ==
    (pc = "built" /\ where # None /\ IsComparableCall(where[1])
       /\ where[1].call \in PatternMethods) =>
        LET c == where[1]
            positive == PositiveMethod(c.call)
            other == build(WithCondition(Call(positive, c.kind, c.args)))
        IN  /\ parameters[Len(parameters)]
                 = [pv |-> "Text", text |-> BracketedPattern(positive, c.args[1].str)]
            /\ other[2] = parameters
            /\ Contains(other[1], <<"LIKE">>)
            /\ ~Contains(other[1], <<"NOT">>)
            /\ sql = IF c.call = positive THEN other[1] ELSE WithNotLike(other[1])

\* not_begins_with with a pattern that holds % and _
C3_Witness ==
    /\ pc = "built"
    /\ where = Some(Call("not_begins_with", <<<<"w">>>>, <<StrLit(<<"%", "m", "_">>)>>))

\* C4: And(L, R) renders as "(" L " AND " R ")", Or(L, R) as
\* "(" L " OR " R ")", Not(E) as "(NOT " E ")" and a single comparison as
\* itself with no parentheses, at every depth of the caller's expression.
RECURSIVE ExpectedCondition(_)
ExpectedCondition(c) ==
    IF IsComparableCall(c)
    THEN visit_compare(<<>>, Comparable(c.call, c.kind, c.args)).out
    ELSE CASE c.call = "and" ->
                <<"(">> \o ExpectedCondition(c.recv) \o <<" ">> \o <<"AND">> \o <<" ">>
                    \o ExpectedCondition(c.arg) \o <<")">>
           [] c.call = "or" ->
                <<"(">> \o ExpectedCondition(c.recv) \o <<" ">> \o <<"OR">> \o <<" ">>
                    \o ExpectedCondition(c.arg) \o <<")">>
           [] c.call = "not" ->
                <<"(">> \o <<"NOT">> \o <<" ">> \o ExpectedCondition(c.recv) \o <<")">>

C4_ConditionTreeRendering ==
    (pc = "built" /\ where # None) => WhereClause(sql) = ExpectedCondition(where[1])

\* a.or(b).and(c)
C4_Witness ==
    /\ pc = "built"
    /\ where # None
    /\ ~IsComparableCall(where[1])
    /\ where[1].call = "and"
    /\ ~IsComparableCall(where[1].recv)
    /\ where[1].recv.call = "or"
    /\ IsComparableCall(where[1].arg)

\* C5: the grouping of the caller's expression can be read back from the
\* text (so two expressions grouped differently never give the same text),
\* and the same comparisons grouped the other way, x.op(y.op'(z)) for
\* x.op(y).op'(z) and back, give another text and the same parameters.
RECURSIVE CallGrouping(_)
\* the grouping of an expression: x a comparison, (..) and/or, (!..) not
CallGrouping(c) ==
    IF IsComparableCall(c) THEN <<"x">>
    ELSE IF c.call = "not" THEN <<"(", "!">> \o CallGrouping(c.recv) \o <<")">>
    ELSE <<"(">> \o CallGrouping(c.recv) \o CallGrouping(c.arg) \o <<")">>

\* the grouping read from the tokens of a condition: parentheses, a NOT
\* that follows "(", and x for each identifier that starts a comparison
TextGrouping(tokens) ==
    LET mark(i) ==
            IF IsCh(tokens[i], "(") THEN <<"(">>
            ELSE IF IsCh(tokens[i], ")") THEN <<")">>
            ELSE IF IsCh(tokens[i], "NOT") /\ i > 1 /\ IsCh(tokens[i - 1], "(")
                 THEN <<"!">>
            ELSE IF IsId(tokens[i]) /\ ~(i > 1 /\ IsCh(tokens[i - 1], "."))
                 THEN <<"x">>
            ELSE <<>>
    IN  Concat([i \in 1..Len(tokens) |-> mark(i)])

\* the expressions with the comparisons of c in the same order, grouped
\* the other way at the top
Regrouped(c) ==
    IF IsComparableCall(c) \/ c.call = "not" THEN {}
    ELSE (IF ~IsComparableCall(c.recv) /\ c.recv.call # "not"
          THEN { [call |-> c.recv.call, recv |-> c.recv.recv,
                  arg |-> [call |-> c.call, recv |-> c.recv.arg, arg |-> c.arg]] }
          ELSE {})
         \cup
         (IF ~IsComparableCall(c.arg) /\ c.arg.call # "not"
          THEN { [call |-> c.arg.call,
                  recv |-> [call |-> c.call, recv |-> c.recv, arg |-> c.arg.recv],
                  arg |-> c.arg.arg] }
          ELSE {})

C5_GroupingPreserved ==
    (pc = "built" /\ where # None) =>
        /\ TextGrouping(Tokens(WhereClause(sql))) = CallGrouping(where[1])
        /\ \A r \in Regrouped(where[1]) :
              LET other == build(WithCondition(r))
              IN  /\ other[1] # sql
                  /\ other[2] = parameters
                  /\ WhereClause(other[1]) = ExpectedCondition(r)

\* a.and(b.and(c))
C5_Witness ==
    /\ pc = "built"
    /\ where # None
    /\ ~IsComparableCall(where[1])
    /\ where[1].call = "and"
    /\ IsComparableCall(where[1].recv)
    /\ ~IsComparableCall(where[1].arg)
    /\ where[1].arg.call = "and"

\* C6: a query whose condition is NoCondition (or was never set) has no
\* WHERE and no HAVING in its text and binds no parameter for a condition.
C6_NoConditionOmitted ==
    (pc = "built" /\ select[1].conditions \in {None, Some(NoCondition)}) =>
        /\ ~Contains(sql, <<"WHERE">>)
        /\ ~Contains(sql, <<"HAVING">>)
        /\ parameters = SelectListValues(select[1].columns)

\* so_that(NoCondition) on a select over a table, then build
C6_Witness ==
    /\ pc = "built"
    /\ select[1].conditions = Some(NoCondition)
    /\ select[1].table # None

\* C7: a select over a table with no columns renders its select list as
\* the asterisk qualified by the table, SELECT `t`.* FROM `t`.
C7_QualifiedAsterisk ==
    (pc = "built" /\ select[1].table # None /\ select[1].columns = <<>>) =>
        LET expected == <<"SELECT">> \o <<" ">> \o visit_table(select[1].table[1])
                            \o <<".", "*", " ">> \o <<"FROM">> \o <<" ">>
                            \o visit_table(select[1].table[1])
        IN  StartsWith(sql, expected)

\* the tokens of a text that holds no identifier
Chars(text) == [i \in 1..Len(text) |-> [ch |-> text[i]]]

\* C8: Select::from(t) with nothing else set builds exactly
\* SELECT * FROM `t` LIMIT -1 (t between backticks, read back as the
\* identifier t) and no parameters.
C8_SelectStarFrom ==
    \A t \in Names \cup {<<"u", Backtick>>} :
        (pc = "built" /\ select[1] = Select_from(Table1(t))) =>
            /\ Tokens(sql) = Chars(<<"SELECT">> \o <<" ", "*", " ">> \o <<"FROM">> \o <<" ">>)
                               \o << [id |-> t] >>
                               \o Chars(<<" ">> \o <<"LIMIT">> \o <<" ", "-", "1">>)
            /\ sql[7] = Backtick
            /\ sql[Len(sql) - 5] = Backtick
            /\ parameters = <<>>

\* Select::from of a table whose name holds a backtick and a ?
C8_Witness ==
    /\ pc = "built"
    /\ select[1] = Select_from(Table1(<<"a", Backtick, "?">>))

Sentinel == <<"LIMIT">> \o <<" ", "-", "1">>

\* C9 as stated: LIMIT -1 when and only when an OFFSET is given without a
\* LIMIT, and no LIMIT clause when neither is given.
C9_SentinelOnlyWithOffset ==
    pc = "built" =>
        /\ Contains(sql, Sentinel)
             <=> (select[1].offset # None /\ select[1].limit = None)
        /\ (select[1].offset = None /\ select[1].limit = None)
             => ~Contains(sql, <<"LIMIT">>)

\* C9 as the visitor behaves: a select over a table emits LIMIT -1 when and
\* only when no LIMIT is given, with or without an OFFSET; a select with no
\* table, no limit and no offset emits no LIMIT clause.
C9_SentinelWithoutLimit ==
    pc = "built" =>
        /\ select[1].table # None
             => (Contains(sql, Sentinel) <=> select[1].limit = None)
        /\ (select[1].table # None /\ select[1].limit # None)
             => Contains(sql, <<"LIMIT">> \o <<" ">> \o Decimal(select[1].limit[1]))
        /\ (select[1].table = None /\ select[1].offset = None
              /\ select[1].limit = None)
             => ~Contains(sql, <<"LIMIT">>)

\* a select over a table with a condition, no limit and no offset
C9_Witness ==
    /\ pc = "built"
    /\ select[1].table # None
    /\ select[1].limit = None
    /\ select[1].offset = None
    /\ where # None

\* C10: every identifier of the query is in the text between backticks with
\* its own backticks doubled (read back, it is the name the caller gave),
\* the parts of a qualified identifier are quoted one by one and joined by
\* ".", and the asterisk is not quoted.
RECURSIVE Qualified(_)
\* the parts of one qualified identifier with "." between them
Qualified(parts) ==
    IF Len(parts) = 1 THEN << [id |-> parts[1]] >>
    ELSE << [id |-> Head(parts)], [ch |-> "."] >> \o Qualified(Tail(parts))

RECURSIVE SelectListIdentifiers(_)
SelectListIdentifiers(columns) ==
    IF columns = <<>> THEN <<>>
    ELSE (IF Head(columns).dv = "Column"
          THEN << [id |-> Head(columns).column.name] >> ELSE <<>>)
           \o SelectListIdentifiers(Tail(columns))

RECURSIVE CallIdentifiers(_)
CallIdentifiers(c) ==
    IF IsComparableCall(c) THEN Qualified(c.kind)
    ELSE IF c.call = "not" THEN CallIdentifiers(c.recv)
    ELSE CallIdentifiers(c.recv) \o CallIdentifiers(c.arg)

\* every identifier the caller wrote into the query, in reading order
WrittenIdentifiers ==
    SelectListIdentifiers(select[1].columns)
      \o (IF select[1].table = None THEN <<>>
          ELSE Qualified(select[1].table[1].database \o <<select[1].table[1].name>>))
      \o (IF where = None THEN <<>> ELSE CallIdentifiers(where[1]))

\* the identifiers of a text and the "." that join two of them
TextIdentifiers(tokens) ==
    LET keep(i) ==
            IF IsId(tokens[i]) THEN <<tokens[i]>>
            ELSE IF IsCh(tokens[i], ".") /\ i > 1 /\ i < Len(tokens)
                      /\ IsId(tokens[i - 1]) /\ IsId(tokens[i + 1])
                 THEN <<tokens[i]>>
            ELSE IF "open" \in DOMAIN tokens[i] THEN <<tokens[i]>>
            ELSE <<>>
    IN  Concat([i \in 1..Len(tokens) |-> keep(i)])

C10_IdentifiersQuoted ==
    pc = "built" =>
        LET tokens == Tokens(sql)
        IN  /\ TextIdentifiers(tokens) = WrittenIdentifiers
            /\ \A i \in 1..Len(tokens) :
                  /\ IsId(tokens[i]) => tokens[i].id # <<"*">>
                  /\ IsCh(tokens[i], ".") => (i > 1 /\ IsId(tokens[i - 1]))
                  /\ "ch" \in DOMAIN tokens[i]
                       => tokens[i].ch \notin {"w", "a", "t", "d", "c", "u"}
            /\ (select[1].columns = <<>>)
                  <=> (\E i \in 1..Len(tokens) : IsCh(tokens[i], "*"))

\* a select from (database, table), the table name holding a backtick, with
\* a condition on (database, table, column)
C10_Witness ==
    /\ pc = "built"
    /\ select[1].table = Some(Table2(<<"c">>, <<"u", Backtick>>))
    /\ where # None
    /\ where[1] = Call("not_ends_into", <<<<"d">>, <<"t">>, <<"a", Backtick, "?">>>>,
                       <<StrLit(<<"%", "m", "_">>)>>)

\* C11: is_null and is_not_null bind nothing: the condition is the operand
\* followed by IS NULL / IS NOT NULL with no placeholder, and a query whose
\* only condition is one of them binds only its select-list values (none
\* when the select list holds no value).
C11_NullBindsNothing ==
    (pc = "built" /\ where # None /\ IsComparableCall(where[1])
        /\ where[1].call \in NullMethods) =>
        /\ parameters = SelectListValues(select[1].columns)
        /\ Placeholders(WhereClause(sql)) = 0
        /\ Tokens(WhereClause(sql)) =
             Qualified(where[1].kind)
               \o Chars(IF where[1].call = "is_null"
                        THEN <<" ", "IS", " ", "NULL">>
                        ELSE <<" ", "IS", " ", "NOT", " ", "NULL">>)

\* a built select with no select-list value whose condition is is_not_null
C11_Witness ==
    /\ pc = "built"
    /\ where # None
    /\ IsComparableCall(where[1])
    /\ where[1].call = "is_not_null"
    /\ SelectListValues(select[1].columns) = <<>>
    /\ parameters = <<>>

\* C12: receiver.m(args) builds the Compare that m builds on the
\* DatabaseValue of Column::from(receiver), where a receiver of one part is
\* the column, of two parts (table, column) and of three parts
\* (database, table, column).
C12_ReceiverAsColumn ==
    \A i \in 1..Len(stack) :
        (i <= Len(calls) /\ IsComparableCall(calls[i])) =>
            LET kind == calls[i].kind
                n == Len(kind)
                col == [name |-> kind[n],
                        table |-> IF n >= 2 THEN <<kind[n - 1]>> ELSE <<>>,
                        database |-> IF n = 3 THEN <<kind[1]>> ELSE <<>>]
            IN  stack[i] = DatabaseValue_compare([dv |-> "Column", column |-> col],
                                                 calls[i].call, calls[i].args)

\* (table, column).not_in_selection(v) has built its Compare
C12_Witness ==
    /\ Len(stack) = 1
    /\ Len(calls) = 1
    /\ calls[1].call = "not_in_selection"
    /\ Len(calls[1].kind) = 2
    /\ stack[1].cmp = "NotIn"
    /\ stack[1].left.column.table = << <<"t">> >>

\* the tasks whose driver call is in flight on the connection
InFlight == { t \in Tasks : tasks[t].phase = "run" /\ tasks[t].f = "pending" }

\* the tasks whose call has returned from a driver call made under timeout()
ReturnedFromTimeout ==
    { t \in Tasks : /\ tasks[t].phase = "done"
                    /\ tasks[t].result \notin {"Cancelled", "ConversionError"}
                    /\ tasks[t].prog # <<>>
                    /\ Head(tasks[t].prog).step = "driver"
                    /\ Head(tasks[t].prog).timed }

\* C13: timeout(duration, f). With Some(duration): when f completed and the
\* timer had not expired the result is f's own (Ok, or f's error as an
\* Error); when the timer expired and f had not completed, f is cancelled
\* and the result is Timeout.  With None: f runs to completion, the result
\* is f's own and is never Timeout.
C13_TimeoutRace ==
    \A t \in ReturnedFromTimeout :
        LET task == tasks[t]
            own == IF task.f = "ok" THEN "Ok" ELSE "QueryError"
        IN  IF connector[1].socket_timeout = None
            THEN /\ task.f \in {"ok", "err"}
                 /\ task.result = own
                 /\ task.timer = "off"
            ELSE /\ task.timer # "elapsed" => (task.f \in {"ok", "err"} /\ task.result = own)
                 /\ task.f \in {"ok", "err"} => task.result = own
                 /\ task.f \notin {"ok", "err"} =>
                        (task.f = "cancelled" /\ task.timer = "elapsed"
                            /\ task.result = "Timeout")

\* raw_cmd on SQLite with a socket timeout: the timer expired first, the
\* driver call was cancelled and Timeout returned
C13_Witness ==
    /\ connector[1].kind = "sqlite"
    /\ connector[1].socket_timeout # None
    /\ tasks[1].phase = "done"
    /\ tasks[1].op = "raw_cmd"
    /\ tasks[1].result = "Timeout"
    /\ tasks[1].f = "cancelled"

\* C14: with a socket timeout configured, every driver call in flight races
\* against a timer, so none can stay pending past it.
C14_DriverCallsTimed ==
    connector[1].socket_timeout # None =>
        \A t \in InFlight : tasks[t].timer \in {"armed", "elapsed"}

\* C15: at most one task holds the connection mutex and at most one driver
\* call is in flight on the connection, made by the task that holds it.
C15_Serialized ==
    /\ Cardinality(holders) <= 1
    /\ Cardinality(InFlight) <= 1
    /\ InFlight \subseteq holders
    /\ \A t \in holders : tasks[t].phase = "run"

\* one task's query is in flight while the other waits for the lock
C15_Witness ==
    /\ InFlight = {2}
    /\ tasks[2].op = "query_raw"
    /\ tasks[1].phase = "run"
    /\ tasks[1].op = "execute_raw"
    /\ Head(tasks[1].prog).step = "lock"

\* C16: while a transaction is open no statement of another task is in
\* flight on the connection.
C16_TransactionExcludesOthers ==
    \A t, u \in Tasks :
        (t # u /\ tasks[t].tx = "open") => u \notin InFlight

C19_ServerResetQuery ==
    \A t \in Tasks :
        (connector[1].kind = "postgres" /\ tasks[t].phase = "done"
            /\ tasks[t].op = "server_reset_query" /\ tasks[t].result # "Cancelled") =>
            IF connector[1].pg_bouncer
            THEN /\ tasks[t].sent = <<"DEALLOCATE ALL">>
                 /\ tasks[t].result =
                        CASE tasks[t].f = "ok" -> "Ok"
                          [] tasks[t].f = "err" -> "QueryError"
                          [] OTHER -> "Timeout"
            ELSE /\ tasks[t].sent = <<>>
                 /\ tasks[t].f = "none"
                 /\ tasks[t].result = "Ok"

\* under PgBouncer the reset after a committed transaction has been sent
C19_Witness ==
    /\ connector[1].kind = "postgres"
    /\ connector[1].pg_bouncer
    /\ tasks[1].phase = "done"
    /\ tasks[1].op = "server_reset_query"
    /\ tasks[1].sent = <<"DEALLOCATE ALL">>
    /\ tasks[1].result = "Ok"

\* C20: a query_raw that has run its statement has bound every element of
\* params, in list order.
C20_AllParamsBound ==
    \A t \in Tasks :
        (tasks[t].phase = "done" /\ tasks[t].op = "query_raw" /\ tasks[t].result = "Ok")
            => tasks[t].bound = tasks[t].params

\* the value of the last pair of the URL with key k, None when there is none
LastValue(k) ==
    LET at == { i \in 1..Len(url.query_pairs) : url.query_pairs[i].k = k }
    IN  IF at = {} THEN None
        ELSE Some(url.query_pairs[CHOOSE i \in at : \A j \in at : j <= i].v)

\* C18: for a URL that parses, the capacity of the statement cache is 0
\* when pgbouncer=true, wherever it stands in the URL; otherwise it is the
\* N of statement_cache_size=N, and 500 when the URL has none.
C18_StatementCacheSize ==
    (postgres_url # None /\ "err" \notin DOMAIN postgres_url[1]) =>
        PostgresUrl_cache(postgres_url[1]) =
            CASE LastValue("pgbouncer") = Some(<<"t", "r", "u", "e">>) -> 0
              [] LastValue("statement_cache_size") = None -> 500
              [] LastValue("statement_cache_size") = Some(<<"4", "2", "0">>) -> 420
              [] LastValue("statement_cache_size") = Some(<<"0">>) -> 0

\* statement_cache_size=420 given after pgbouncer=true
C18_Witness ==
    /\ url.query_pairs = << QueryPair("pgbouncer", <<"t", "r", "u", "e">>),
                            QueryPair("statement_cache_size", <<"4", "2", "0">>) >>
    /\ postgres_url # None
    /\ "err" \notin DOMAIN postgres_url[1]
    /\ PostgresUrl_cache(postgres_url[1]) = 0

\* the number a bound integer stands for, as an i64: sign extension of an i16
\* or i32, zero extension of a u32
Widen(n) ==
    LET sign == IF n.ty # "u32" /\ n.bits[Len(n.bits)] >= 32768 THEN 65535 ELSE 0
    IN  n.bits \o [k \in 1..(4 - Len(n.bits)) |-> sign]

\* the Rust type bind_value narrows an integer to for a parameter of this type
NarrowTarget(type_info) ==
    CASE type_info = Some("INT2") -> "i16"
      [] type_info = Some("OID") -> "u32"
      [] OTHER -> "i32"

\* bind_value of the PostgreSQL connector has returned for a present Integer
\* and a parameter narrower than 64 bits
BoundNarrowInteger ==
    /\ conv_bound # None
    /\ conv_bound[1].db = "postgres"
    /\ conv_value.variant = "Integer"
    /\ conv_value.payload # None
    /\ conv_type \in {Some("INT2"), Some("INT4"), Some("OID"), None}

\* C21: binding Value::Integer(i) to a PostgreSQL parameter narrower than 64
\* bits (INT2, INT4, OID, no type information) binds i itself when i is in the
\* range of the target and returns ValueOutOfRange when it is not: never a
\* wrapped or truncated number.
C21_NarrowingIsChecked ==
    BoundNarrowInteger =>
        LET i == conv_value.payload[1]
            n == Cast(i, NarrowTarget(conv_type))
        IN  IF Widen(n) = i
            THEN conv_bound[1].result = Ok(Some(n))
            ELSE conv_bound[1].result = [err |-> "ValueOutOfRange"]

\* the declared type of the SQLite column that matches a variant of Value
MatchingColumn(variant) ==
    CASE variant = "Integer" -> "INTEGER"
      [] variant = "Real" -> "REAL"
      [] variant \in {"Text", "Enum", "Char", "Json", "Uuid"} -> "TEXT"
      [] variant = "Bytes" -> "BLOB"
      [] variant = "Boolean" -> "BOOLEAN"
      [] variant \in {"DateTime", "Date", "Time"} -> "DATETIME"
      [] OTHER -> "NULL"

\* C22: a Value bound for SQLite and read back with map_row from a column of
\* the matching type is the Value that was bound: same variant, same payload,
\* absent stays absent.
C22_RoundTrip ==
    (conv_row # None /\ conv_type = Some(MatchingColumn(conv_value.variant)))
        => conv_row[1] = Ok(conv_value)

\* C23: for SQLite, converting an Array, present or absent, returns a
\* ConversionError and binds nothing; every other variant converts to a
\* SqliteValue without an error or a panic.
C23_ArrayFailsCleanly ==
    (conv_bound # None /\ conv_bound[1].db = "sqlite") =>
        IF conv_value.variant = "Array"
        THEN conv_bound[1].result = [err |-> "ConversionError"]
        ELSE /\ DOMAIN conv_bound[1].result = {"ok"}
             /\ conv_bound[1].result.ok.sv \in {"Integer", "Real", "Text", "Bytes", "Boolean"}

C23_Witness ==
    /\ conv_bound # None
    /\ conv_bound[1].db = "sqlite"
    /\ conv_value.variant = "Array"
    /\ conv_value.payload # None
    /\ conv_bound[1].result = [err |-> "ConversionError"]
    /\ conv_row = None

\* the variant the elements of an array must have for a parameter of this
\* type, None for a type bind_value has no array arm for
ElementKind(type_info) ==
    CASE type_info \in {Some("INT2[]"), Some("INT4[]"), Some("INT8[]"), Some("OID[]")} ->
             Some("Integer")
      [] type_info = Some("BOOL[]") -> Some("Boolean")
      [] type_info \in {Some("TEXT[]"), Some("VARCHAR[]"), Some("NAME[]")} -> Some("Text")
      [] OTHER -> None

\* C28: PostgreSQL bind of an Array: a parameter type that is unknown or
\* unsupported is rejected with a ConversionError; for a supported type an
\* absent array binds NULL, and a present array with an element of another
\* kind or an absent element returns a ConversionError and binds nothing.
C28_ArrayElementsChecked ==
    (conv_bound # None /\ conv_bound[1].db = "postgres" /\ conv_value.variant = "Array") =>
        LET kind == ElementKind(conv_type)
            ary == conv_value.payload
            result == conv_bound[1].result
        IN  /\ kind = None => result = [err |-> "ConversionError"]
            /\ (kind # None /\ ary = None) => result = Ok(None)
            /\ (kind # None /\ ary # None
                  /\ \E k \in 1..Len(ary[1]) :
                         ary[1][k].variant # kind[1] \/ ary[1][k].payload = None)
                 => result = [err |-> "ConversionError"]

C28_Witness ==
    /\ conv_bound # None
    /\ conv_bound[1].db = "postgres"
    /\ conv_type = Some("INT4[]")
    /\ conv_value.variant = "Array"
    /\ conv_value.payload # None
    /\ Len(conv_value.payload[1]) = 2
    /\ conv_value.payload[1][1] = Value("Integer", Some(I64(1)))
    /\ conv_value.payload[1][2] = Value("Integer", None)
    /\ conv_bound[1].result = [err |-> "ConversionError"]

\* C30: a millisecond timestamp ts, negative ones included, read from a
\* DATETIME column decodes to a valid DateTime d (nsecs below 10^9) with
\* d.timestamp_millis() = ts.
C30_DateTimeInverse ==
    (conv_row # None /\ conv_type = Some("DATETIME")
       /\ conv_bound[1].result.ok.payload # None) =>
        LET ts == I64Value(conv_bound[1].result.ok.payload[1])
            decoded == conv_row[1]
        IN  /\ DOMAIN decoded = {"ok"}
            /\ decoded.ok.variant = "DateTime"
            /\ decoded.ok.payload # None
            /\ decoded.ok.payload[1].nsecs < 1000000000
            /\ timestamp_millis(decoded.ok.payload[1]) = ts

\* the pair is one of the five options PostgresUrl::new parses a value of, and
\* its value is not a bool (pgbouncer) or not an unsigned number (the others)
DoesNotParse(pair) ==
    \/ pair.k = "pgbouncer" /\ pair.v \notin {<<"t", "r", "u", "e">>, <<"f", "a", "l", "s", "e">>}
    \/ /\ pair.k \in {"statement_cache_size", "connection_limit", "socket_timeout",
                      "connect_timeout"}
       /\ \/ pair.v = <<>>
          \/ \E k \in 1..Len(pair.v) : pair.v[k] \notin Digits

\* the options parse_query_params has an arm for
KnownOptions ==
    { "pgbouncer", "sslmode", "sslcert", "sslidentity", "sslpassword", "statement_cache_size",
      "sslaccept", "schema", "connection_limit", "host", "socket_timeout", "connect_timeout" }

\* C24: PostgresUrl::new returns InvalidConnectionArguments, and no
\* PostgresUrl, when pgbouncer, statement_cache_size, connection_limit,
\* socket_timeout or connect_timeout has a value that does not parse; an
\* unknown option causes no error and changes no parsed field.
C24_InvalidArguments ==
    postgres_url # None =>
        LET pairs == url.query_pairs
            known == SelectSeq(pairs, LAMBDA pair : pair.k \in KnownOptions)
            without == PostgresUrl_new([url EXCEPT !.query_pairs = known])
        IN  /\ (\E k \in 1..Len(pairs) : DoesNotParse(pairs[k]))
                  => postgres_url[1] = [err |-> "InvalidConnectionArguments"]
            /\ (\A k \in 1..Len(pairs) : ~DoesNotParse(pairs[k]))
                  => /\ "err" \notin DOMAIN postgres_url[1]
                     /\ postgres_url[1].query_params = without.query_params

\* an unknown option, then a socket_timeout that is not a number
C24_Witness ==
    /\ url.query_pairs = << QueryPair("application_name", <<"q">>),
                            QueryPair("socket_timeout", <<"5", "s">>) >>
    /\ postgres_url = Some([err |-> "InvalidConnectionArguments"])

\* C25: dbname() is the first segment of the path of the URL, and postgres
\* when the URL names no database: its path is empty or just /.
C25_Dbname ==
    (postgres_url # None /\ "err" \notin DOMAIN postgres_url[1]) =>
        PostgresUrl_dbname(postgres_url[1]) =
            CASE url.path \in {<<>>, <<"/">>} -> <<"p", "o", "s", "t", "g", "r", "e", "s">>
              [] url.path \in {<<"/", "d", "b">>, <<"/", "d", "b", "/", "x">>} -> <<"d", "b">>

\* C27: an sslmode value that is not supported makes the parsed mode prefer,
\* whatever stands before it in the URL, and an sslaccept value that is not
\* supported makes the accept mode strict.
C27_UnsupportedSslMode ==
    (postgres_url # None /\ "err" \notin DOMAIN postgres_url[1]) =>
        /\ LastValue("sslmode") = Some(<<"f", "u", "l", "l">>)
              => postgres_url[1].query_params.ssl_mode = "Prefer"
        /\ LastValue("sslaccept") = Some(<<"n", "o">>)
              => postgres_url[1].query_params.ssl_accept_mode = "Strict"

\* the tasks inside PostgreSql::query_raw with the describe step already sent
\* and the call not yet returned
DescribedNotReturned ==
    { t \in Tasks : /\ connector[1].kind = "postgres"
                    /\ tasks[t].op = "query_raw"
                    /\ tasks[t].phase = "run"
                    /\ tasks[t].sent # <<>> }

\* C29: from the describe step of a PostgreSql::query_raw call until the call
\* returns, the caller holds the connection lock, so no other task holds it or
\* has a statement in flight on the connection.
C29_LockedFromDescribeToFetch ==
    \A t \in DescribedNotReturned :
        /\ holders = {t}
        /\ \A u \in Tasks \ {t} : tasks[u].f # "pending"

\* the fetch of a described query is in flight while the other task waits
\* for the lock with a query of its own
C29_Witness ==
    /\ connector[1].kind = "postgres"
    /\ 1 \in DescribedNotReturned
    /\ Len(tasks[1].sent) = 2
    /\ tasks[1].f = "pending"
    /\ tasks[2].phase = "run"
    /\ tasks[2].op = "query_raw"
    /\ Head(tasks[2].prog).step = "lock"

RECURSIVE PgPlaceholders(_, _)
\* the placeholders of a PostgreSQL text in order of appearance, each as the
\* digits that follow its $: the $ inside double quotes belong to identifiers
PgPlaceholders(text, quoted) ==
    IF text = <<>> THEN <<>>
    ELSE IF Head(text) = "\"" THEN PgPlaceholders(Tail(text), ~quoted)
    ELSE IF quoted \/ Head(text) # "$" THEN PgPlaceholders(Tail(text), quoted)
    ELSE LET rest == Tail(text)
             stop == IF \E k \in 1..Len(rest) : rest[k] \notin Digits
                     THEN CHOOSE k \in 1..Len(rest) :
                              rest[k] \notin Digits /\ \A j \in 1..(k - 1) : rest[j] \in Digits
                     ELSE Len(rest) + 1
         IN  << SubSeq(rest, 1, stop - 1) >> \o PgPlaceholders(rest, quoted)

\* C26: the placeholders of the text the PostgreSQL visitor builds are
\* $1..$N in order of appearance, N = len(params), and the k-th parameter is
\* the k-th value of the query; Insert::single_into(t).value(c, v) gives
\* INSERT INTO "t" ("c") VALUES ($1) with params [v].
C26_NumberedPlaceholders ==
    (pc = "built" /\ insert # None) =>
        /\ PgPlaceholders(sql, FALSE) = [k \in 1..Len(parameters) |-> Decimal(k)]
        /\ parameters = insert[1].values
        /\ (insert[1].table = <<"n">> /\ insert[1].columns = << <<"n">> >>) =>
               sql = <<"INSERT", " ", "INTO", " ", "\"", "n", "\"", " ", "(", "\"", "n", "\"",
                       ")", " ", "VALUES", " ", "(", "$", "1", ")">>

\* three values, the second one a text that reads like a placeholder, into a
\* table whose name holds a quote and a $
C26_Witness ==
    /\ pc = "built"
    /\ insert # None
    /\ insert[1].table = <<"u", "\"", "$", "1">>
    /\ Len(insert[1].values) = 3
    /\ insert[1].values[2] = Text(<<"$", "2">>)
    /\ parameters = insert[1].values
    /\ PgPlaceholders(sql, FALSE) = << <<"1">>, <<"2">>, <<"3">> >>

====
